---- MODULE Spec2Model ----
(***************************************************************************)
(* Model of the call-analysis pipeline of gcs_call_analyzer:               *)
(*   - TranscriptionService.get_transcription_result (transcript          *)
(*     reconstruction), src/src/aws_services/transcription.py              *)
(*   - TranscriptionService.analyze_sentiment (chunking and aggregation)   *)
(*   - DynamoDBService.store_analysis / get_analysis,                      *)
(*     src/src/aws_services/dynamodb.py                                    *)
(*                                                                         *)
(* Python strings are sequences of one-character strings, so that          *)
(* slicing, strip(), formatting and prefixes are computed, not assumed.    *)
(* Times are counted in ticks of half a second (tick 2 is 1.0 s).          *)
(***************************************************************************)
EXTENDS Integers, Sequences, FiniteSets, TLC

VARIABLES
    \* ---- get_transcription_result (transcription.py:162-248)
    tpc,              \* position: "idle", "start", "loop", "done"
    segments,         \* results.speaker_labels.segments of the fetched JSON
    items,            \* results.items of the fetched JSON
    speaker_map,      \* start_time -> speaker_label
    idx,              \* number of items the for loop has consumed
    current_speaker,
    current_line,
    transcript_text,
    duration,
    speakers_text,
    \* ---- analyze_sentiment (transcription.py:45-121)
    spc,              \* position: "idle", "start", "speaker", "chunk", "done", "raised"
    in_speakers_text, \* the speakers_text argument
    spk_i,            \* index of the speaker the outer loop is at
    chunks,           \* chunks of the current speaker
    chunk_i,          \* number of chunks the inner loop has consumed
    speaker_sentiments,
    all_sentiments,
    sentiment_results,
    overall_sentiment,
    calls,            \* log of comprehend.detect_sentiment calls: <<speaker, chunk>>
    \* ---- DynamoDBService (dynamodb.py)
    dpc,              \* outcome of the last call: "idle", "stored", "stored_again",
                      \* "store_failed", "got", "get_failed"
    table,            \* the DynamoDB table: file_key -> item
    written,          \* the put_item calls the table accepted, oldest first: [key, item]
    file_key,         \* the file_key argument of the last store_analysis
    get_key,          \* the file_key argument of the last get_analysis
    data_in,          \* the analysis_data argument of the last store_analysis, as passed
    analysis_data,    \* the caller's analysis_data dict after that call
    last_get,         \* what the last call returned when it was a get_analysis
    now,              \* the clock datetime.now() reads
    \* ---- the chunker of transcription.py:66 on its own
    cpc,              \* position: "idle", "input" or "chunked"
    c_text,           \* the text
    c_size,           \* the chunk size
    c_chunks,         \* the list line 66 builds
    \* ---- process_audio_file (app.py:166-252)
    ppc,              \* position: "idle", "check", "submit", "poll", "result",
                      \* "summary", "insights", "store", "returned"
    p_key,            \* the file_key argument
    job_status,       \* TranscriptionJobStatus as last reported, "NONE" before the job exists
    polls,            \* number of time.sleep(10) calls of the wait loop
    ops,              \* log of the remote calls made, in order
    failure,          \* the remote call that raised: [stage, cause], or NoFailure
    shown_error,      \* the text given to st.error, << >> when there was none
    returned,         \* what process_audio_file returned
    speakers,         \* list(set(speaker_map.values()))
    llm_sentiment,    \* what bedrock_service.analyze_call_sentiment returned
    summary,          \* what bedrock_service.generate_summary returned
    insights,         \* what bedrock_service.extract_insights returned
    \* ---- _validate_transcript on its own (dynamodb.py:30-53)
    vpc,              \* position: "idle", "input", "validated", "validated_again"
    v_text,           \* the transcript_text argument
    v_result,         \* what the last call returned
    \* ---- two overlapping runs of process_audio_file for one key
    rpc,              \* run -> position: "idle", "check", "work", "store", "returned"
    r_key,            \* the file_key both runs were called with
    r_data,           \* run -> the analysis_data it assembled, Empty before
    r_item,           \* run -> the item it gave to put_item, Empty when it gave none
    r_returned        \* run -> what it returned

tvars == <<tpc, segments, items, speaker_map, idx, current_speaker, current_line,
           transcript_text, duration, speakers_text>>
svars == <<spc, in_speakers_text, spk_i, chunks, chunk_i, speaker_sentiments,
           all_sentiments, sentiment_results, overall_sentiment, calls>>
dvars == <<dpc, table, written, file_key, get_key, data_in, analysis_data, last_get, now>>
cvars == <<cpc, c_text, c_size, c_chunks>>
vvars == <<vpc, v_text, v_result>>
rvars == <<rpc, r_key, r_data, r_item, r_returned>>
pvars == <<ppc, p_key, job_status, polls, ops, failure, shown_error, returned, speakers,
           llm_sentiment, summary, insights>>
vars == <<tvars, svars, dvars, cvars, vvars, rvars, pvars>>

\* What a step of one component leaves alone.
OnlyT == UNCHANGED <<svars, dvars, cvars, vvars, rvars, pvars>>
OnlyS == UNCHANGED <<tvars, dvars, cvars, vvars, rvars, pvars>>
OnlyD == UNCHANGED <<tvars, svars, cvars, vvars, rvars, pvars>>
OnlyC == UNCHANGED <<tvars, svars, dvars, pvars, vvars, rvars>>

----------------------------------------------------------------------------
(* Strings *)

\* The empty dict / empty string / empty list.
Empty == << >>

RECURSIVE Concat(_)
\* ''.join(seq_of_strings)
Concat(ss) == IF ss = << >> THEN << >> ELSE Head(ss) \o Concat(Tail(ss))

\* s[a:b] with 0 <= a, Python slice semantics (b clipped to len(s)).
Slice(s, a, b) ==
    LET e == IF b > Len(s) THEN Len(s) ELSE b
    IN  IF a >= e THEN << >> ELSE SubSeq(s, a + 1, e)

\* s.startswith(p)
StartsWith(s, p) == Len(p) <= Len(s) /\ SubSeq(s, 1, Len(p)) = p

\* Every character of s other than c, in order.
Without(s, c) == SelectSeq(s, LAMBDA x : x # c)

\* s.split("\n") for a text in which every line is terminated by "\n":
\* the lines, without the terminators.
RECURSIVE LinesOf(_, _)
LinesOf(s, acc) ==
    IF s = << >> THEN (IF acc = << >> THEN << >> ELSE <<acc>>)
    ELSE IF Head(s) = "\n" THEN <<acc>> \o LinesOf(Tail(s), << >>)
    ELSE LinesOf(Tail(s), Append(acc, Head(s)))

----------------------------------------------------------------------------
(* get_transcription_result: inputs *)

\* Python's None (speaker_map.get of a start time that has no entry).
None == "<None>"

SPK0 == "spk_0"
SPK1 == "spk_1"
SPK2 == "spk_2"

\* str(label), as the f-string of transcription.py:204 renders it.
LabelText(l) ==
    CASE l = SPK0 -> <<"s", "p", "k", "_", "0">>
      [] l = SPK1 -> <<"s", "p", "k", "_", "1">>
      [] l = SPK2 -> <<"s", "p", "k", "_", "2">>
      [] OTHER    -> <<"N", "o", "n", "e">>

\* Speaker labels a diarization segment can carry.
SegmentLabels == {SPK0, SPK1, SPK2}

\* Start times of words, in ticks.
Times == {0, 1}

Hello == <<"H", "e", "l", "l", "o">>
Hi == <<"H", "i">>
WordContents == {Hello, Hi}
PunctContents == {<<",">>, <<".">>}

\* Longest items list of the fetched result.
MaxItems == 3

\* A word ends one tick after it starts.
WordItems ==
    {[type |-> "pronunciation", content |-> c, start_time |-> t, end_time |-> t + 1] :
        c \in WordContents, t \in Times}
PunctItems ==
    {[type |-> "punctuation", content |-> c, start_time |-> 0, end_time |-> 0] :
        c \in PunctContents}
Items == WordItems \cup PunctItems

RECURSIVE SeqsUpTo(_, _)
\* All sequences over S of length at most n.
SeqsUpTo(S, n) ==
    IF n = 0 THEN {<< >>}
    ELSE LET shorter == SeqsUpTo(S, n - 1)
         IN  shorter \cup {Append(s, x) : s \in shorter, x \in S}

\* A segment: a speaker label and the start times of its items.
Segments ==
    {[speaker_label |-> l, items |-> ts] :
        l \in SegmentLabels, ts \in {<<0>>, <<1>>, <<0, 1>>}}
SegmentLists ==
    {<< >>} \cup {<<a>> : a \in Segments} \cup {<<a, b>> : a \in Segments, b \in Segments}

----------------------------------------------------------------------------
(* get_transcription_result: the code *)

RECURSIVE MapSegmentItems(_, _, _)
\* for item in segment['items']: speaker_map[item['start_time']] = label
MapSegmentItems(m, ts, label) ==
    IF ts = << >> THEN m
    ELSE MapSegmentItems([t \in DOMAIN m \cup {Head(ts)} |->
                             IF t = Head(ts) THEN label ELSE m[t]],
                         Tail(ts), label)

RECURSIVE BuildSpeakerMap(_, _)
\* speaker_map = {}; for segment in segments: ...   (later writes win)
BuildSpeakerMap(m, segs) ==
    IF segs = << >> THEN m
    ELSE BuildSpeakerMap(MapSegmentItems(m, Head(segs).items, Head(segs).speaker_label),
                         Tail(segs))

\* speaker_map.get(start_time)
MapGet(m, t) == IF t \in DOMAIN m THEN m[t] ELSE None

\* f"{speaker}: {content}"
NewLine(speaker, content) == LabelText(speaker) \o <<":", " ">> \o content

\* The flush of lines 201-202 and 221-222: transcript_text with current_line
\* appended as a line when it is not empty.
FlushDropsLine(tt, cl) == tt
Flush(tt, cl) == IF cl # << >> THEN tt \o cl \o <<"\n">> ELSE tt

\* Lines 209-210 and 218-219: speakers_text with text appended to the entry of
\* speaker when speaker is one of its keys.
AddToSpeakerAny(st, speaker, text) ==
    [s \in DOMAIN st |-> st[s] \o text]
AddToSpeakerNewKey(st, speaker, text) ==
    IF speaker \in DOMAIN st
    THEN [st EXCEPT ![speaker] = @ \o text]
    ELSE st @@ (speaker :> text)
AddToSpeaker(st, speaker, text) ==
    IF speaker \in DOMAIN st
    THEN [st EXCEPT ![speaker] = @ \o text]
    ELSE st

\* Lines 213-214: the running maximum of the end times.
UpdateDurationLast(d, end_time) == end_time
UpdateDuration(d, end_time) == IF end_time > d THEN end_time ELSE d

\* Lines 164-193: the result is fetched and the locals are initialised.
FetchResult ==
    /\ tpc = "start"
    /\ \E its \in SeqsUpTo(Items, MaxItems), segs \in SegmentLists :
          /\ items' = its
          /\ segments' = segs
          /\ speaker_map' = BuildSpeakerMap(Empty, segs)
    /\ transcript_text' = << >>
    /\ duration' = 0
    /\ speakers_text' = [s \in {SPK0, SPK1} |-> << >>]
    /\ current_speaker' = None
    /\ current_line' = << >>
    /\ idx' = 0
    /\ tpc' = "loop"
    /\ OnlyT

\* Lines 195-219: one iteration of the for loop over items.
ProcessItem ==
    /\ tpc = "loop"
    /\ idx < Len(items)
    /\ LET item == items[idx + 1]
           content == item.content
       IN  IF item.type = "pronunciation"
           THEN LET speaker == MapGet(speaker_map, item.start_time)
                IN  /\ IF speaker # current_speaker
                       THEN /\ transcript_text' = Flush(transcript_text, current_line)
                            /\ current_speaker' = speaker
                            /\ current_line' = NewLine(speaker, content)
                       ELSE /\ current_line' = current_line \o <<" ">> \o content
                            /\ UNCHANGED <<transcript_text, current_speaker>>
                    /\ speakers_text' = AddToSpeaker(speakers_text, speaker, <<" ">> \o content)
                    /\ duration' = UpdateDuration(duration, item.end_time)
           ELSE /\ current_line' = current_line \o content
                /\ speakers_text' = AddToSpeaker(speakers_text, current_speaker, content)
                /\ UNCHANGED <<transcript_text, current_speaker, duration>>
    /\ idx' = idx + 1
    /\ UNCHANGED <<tpc, segments, items, speaker_map>>
    /\ OnlyT

\* Lines 221-222: the loop is over, the last line is flushed.
FlushLast ==
    /\ tpc = "loop"
    /\ idx = Len(items)
    /\ transcript_text' = Flush(transcript_text, current_line)
    /\ tpc' = "done"
    /\ UNCHANGED <<segments, items, speaker_map, idx, current_speaker, current_line,
                   duration, speakers_text>>
    /\ OnlyT

TInit ==
    /\ tpc = "start"
    /\ segments = << >>
    /\ items = << >>
    /\ speaker_map = Empty
    /\ idx = 0
    /\ current_speaker = None
    /\ current_line = << >>
    /\ transcript_text = << >>
    /\ duration = 0
    /\ speakers_text = [s \in {SPK0, SPK1} |-> << >>]

SInitIdle ==
    /\ spc = "idle"
    /\ in_speakers_text = [s \in {SPK0, SPK1} |-> << >>]
    /\ spk_i = 0
    /\ chunks = << >>
    /\ chunk_i = 0
    /\ speaker_sentiments = << >>
    /\ all_sentiments = << >>
    /\ sentiment_results = Empty
    /\ overall_sentiment = "NEUTRAL"
    /\ calls = << >>

DInitIdle ==
    /\ dpc = "idle"
    /\ table = Empty
    /\ written = << >>
    /\ file_key = << >>
    /\ get_key = << >>
    /\ data_in = Empty
    /\ analysis_data = Empty
    /\ last_get = [t |-> "null", v |-> << >>]
    /\ now = 0

CInitIdle ==
    /\ cpc = "idle"
    /\ c_text = << >>
    /\ c_size = 1
    /\ c_chunks = << >>

\* The runs of the two-run specification.
Runs == {1, 2}

VInitIdle ==
    /\ vpc = "idle"
    /\ v_text = << >>
    /\ v_result = << >>

RInitIdle ==
    /\ rpc = [r \in Runs |-> "idle"]
    /\ r_key = << >>
    /\ r_data = [r \in Runs |-> << >>]
    /\ r_item = [r \in Runs |-> << >>]
    /\ r_returned = [r \in Runs |-> [t |-> "null", v |-> << >>]]

\* A failure record of no failure.
NoFailure == [stage |-> "none", cause |-> "none"]

PInitIdle ==
    /\ ppc = "idle"
    /\ p_key = << >>
    /\ job_status = "NONE"
    /\ polls = 0
    /\ ops = << >>
    /\ failure = NoFailure
    /\ shown_error = << >>
    /\ returned = [t |-> "null", v |-> << >>]
    /\ speakers = << >>
    /\ llm_sentiment = [t |-> "null", v |-> << >>]
    /\ summary = [t |-> "null", v |-> << >>]
    /\ insights = [t |-> "null", v |-> << >>]

TranscriptInit ==
    TInit /\ SInitIdle /\ DInitIdle /\ CInitIdle /\ PInitIdle /\ VInitIdle /\ RInitIdle
TranscriptNext == FetchResult \/ ProcessItem \/ FlushLast
SpecTranscript == TranscriptInit /\ [][TranscriptNext]_vars

----------------------------------------------------------------------------
(* get_transcription_result: claims *)

\* The contents of the items, concatenated in input order.
RECURSIVE ContentsOf(_)
ContentsOf(its) == IF its = << >> THEN << >> ELSE Head(its).content \o ContentsOf(Tail(its))

\* A transcript line without its "<speaker>: " prefix (the speaker as line 204
\* formats it, None included); a line that has no such prefix is kept whole.
StripLabel(line) ==
    LET ls == {l \in SegmentLabels \cup {None} : StartsWith(line, LabelText(l) \o <<":", " ">>)}
    IN  IF ls = {} THEN line
        ELSE LET l == CHOOSE x \in ls : TRUE
             IN  SubSeq(line, Len(LabelText(l)) + 3, Len(line))

\* The lines of the transcript, prefixes removed, concatenated in order.
StrippedTranscript ==
    LET ls == LinesOf(transcript_text, << >>)
    IN  Concat([i \in 1..Len(ls) |-> StripLabel(ls[i])])

\* C1: when get_transcription_result has built the transcript, its lines with
\* the speaker-label prefixes removed, concatenated in order, carry the content
\* of every word and punctuation item exactly once and in input order (the
\* separating spaces aside).
C1_TranscriptKeepsContent ==
    tpc = "done" => Without(StrippedTranscript, " ") = ContentsOf(items)

\* C1 witness: a finished run over words of two speakers and a punctuation
\* item, giving at least two lines.
C1_Witness ==
    /\ tpc = "done"
    /\ Len(LinesOf(transcript_text, << >>)) >= 2
    /\ \E i \in 1..Len(items) : items[i].type = "punctuation"
    /\ \E i \in 1..Len(items) : items[i].type = "pronunciation"

\* The speaker item i of its is attributed to: a word to the speaker mapped to
\* its start time, a punctuation item to the speaker of the last word before it.
RECURSIVE AttributedTo(_, _)
AttributedTo(its, i) ==
    IF i = 0 THEN None
    ELSE IF its[i].type = "pronunciation" THEN MapGet(speaker_map, its[i].start_time)
    ELSE AttributedTo(its, i - 1)

\* The contents of the items attributed to speaker s, in input order.
RECURSIVE ContentsFor(_, _, _)
ContentsFor(its, i, s) ==
    IF i > Len(its) THEN << >>
    ELSE (IF AttributedTo(its, i) = s THEN its[i].content ELSE << >>)
         \o ContentsFor(its, i + 1, s)

\* C2: for s in {spk_0, spk_1}, speakers_text[s] is the in-order concatenation
\* of the items attributed to s and of nothing else (the separating spaces
\* aside).
C2_SpeakerTextIsOwnItems ==
    tpc = "done" =>
        \A s \in {SPK0, SPK1} :
            Without(speakers_text[s], " ") = ContentsFor(items, 1, s)

\* C2 witness: a finished run in which both speakers have text and one of them
\* has a punctuation item.
C2_Witness ==
    /\ tpc = "done"
    /\ speakers_text[SPK0] # << >>
    /\ speakers_text[SPK1] # << >>
    /\ \E i \in 1..Len(items) :
          items[i].type = "punctuation" /\ AttributedTo(items, i) \in {SPK0, SPK1}

\* The largest end time of the word items, 0 when there is none.
MaxEnd(its) ==
    LET ends == {its[i].end_time : i \in {j \in 1..Len(its) : its[j].type = "pronunciation"}}
    IN  IF ends = {} THEN 0 ELSE CHOOSE m \in ends : \A e \in ends : e <= m

\* The two-word stream of the scenario: Hello (0.0-0.5), Hi (0.5-1.0).
ScenarioItems ==
    << [type |-> "pronunciation", content |-> Hello, start_time |-> 0, end_time |-> 1],
       [type |-> "pronunciation", content |-> Hi, start_time |-> 1, end_time |-> 2] >>
ScenarioMap == (0 :> SPK0) @@ (1 :> SPK1)
ScenarioTranscript ==
    LabelText(SPK0) \o <<":", " ">> \o Hello \o <<"\n">>
    \o LabelText(SPK1) \o <<":", " ">> \o Hi \o <<"\n">>

\* C8: the duration returned is the maximum end time over the word items (0
\* without a word item), whatever the order of the items; the scenario stream
\* gives "spk_0: Hello\nspk_1: Hi\n" and 1.0 s (2 ticks).
C8_DurationIsMaxEnd ==
    tpc = "done" =>
        /\ duration = MaxEnd(items)
        /\ (items = ScenarioItems /\ speaker_map = ScenarioMap) =>
              (transcript_text = ScenarioTranscript /\ duration = 2)

\* C8 witness: the scenario stream has been processed.
C8_Witness ==
    tpc = "done" /\ items = ScenarioItems /\ speaker_map = ScenarioMap

\* A finished run whose words are not in time order.
C8_WitnessUnordered ==
    /\ tpc = "done"
    /\ \E i, j \in 1..Len(items) :
          /\ i < j
          /\ items[i].type = "pronunciation" /\ items[j].type = "pronunciation"
          /\ items[i].end_time > items[j].end_time

----------------------------------------------------------------------------
(* analyze_sentiment: inputs *)

\* The labels comprehend.detect_sentiment returns, in the order in which
\* lines 80-85 insert them into sentiment_counts.
SentimentOrder == <<"POSITIVE", "NEGATIVE", "NEUTRAL", "MIXED">>
Sentiments == {SentimentOrder[i] : i \in 1..Len(SentimentOrder)}

\* The keys of speakers_text in dict order (transcription.py:179).
SpeakerOrder == <<SPK0, SPK1>>

\* Characters of a speaker text: a whitespace character and a letter.
TextChars == {" ", "a"}

\* Longest speaker text handed to analyze_sentiment.
MaxTextLen == 3

\* max_chunk_size of line 65. The program's value is 4800; the model scales
\* it down so that texts of MaxTextLen characters split into several chunks.
max_chunk_size == 1

----------------------------------------------------------------------------
(* analyze_sentiment: the code *)

\* Characters str.strip() removes.
Whitespace == {" ", "\n", "\t", "\r"}

RECURSIVE LStrip(_)
LStrip(s) == IF s # << >> /\ Head(s) \in Whitespace THEN LStrip(Tail(s)) ELSE s

RECURSIVE RStrip(_)
RStrip(s) ==
    IF s # << >> /\ s[Len(s)] \in Whitespace THEN RStrip(SubSeq(s, 1, Len(s) - 1)) ELSE s

\* s.strip()
Strip(s) == RStrip(LStrip(s))

\* The test of line 70, `if chunk.strip()`.
SubmitsAlways(chunk) == TRUE
Submits(chunk) == Strip(chunk) # << >>

RECURSIVE ChunksFrom(_, _, _)
\* [utterances[i:i + size] for i in range(start, len(utterances), size)]
ChunksFrom(utterances, start, size) ==
    IF start >= Len(utterances) THEN << >>
    ELSE <<Slice(utterances, start, start + size)>>
         \o ChunksFrom(utterances, start + size, size)

\* Line 66 with an overlapping stride (a chunk starts on the last character
\* of the previous one).
RECURSIVE OverlapFrom(_, _, _)
OverlapFrom(utterances, start, size) ==
    IF start >= Len(utterances) THEN << >>
    ELSE <<Slice(utterances, start, start + size + 1)>>
         \o OverlapFrom(utterances, start + size, size)
ChunksOverlapping(utterances, size) == OverlapFrom(utterances, 0, size)

\* Line 66.
Chunks(utterances, size) == ChunksFrom(utterances, 0, size)

\* list.count(label)
Count(labels, label) == Cardinality({i \in 1..Len(labels) : labels[i] = label})

\* Lines 80-85 and 105-110: the histogram over the four labels.
SentimentCounts(labels) == [l \in Sentiments |-> Count(labels, l)]

RECURSIVE MaxKeyFrom(_, _, _, _)
\* max(d, key=d.get) over the keys order[i..]: the first key of maximal value.
MaxKeyFrom(counts, order, i, best) ==
    IF i > Len(order) THEN best
    ELSE MaxKeyFrom(counts, order, i + 1,
                    IF counts[order[i]] > counts[best] THEN order[i] ELSE best)

RECURSIVE LastMaxKeyFrom(_, _, _, _)
\* The same scan keeping the last key of maximal value.
LastMaxKeyFrom(counts, order, i, best) ==
    IF i > Len(order) THEN best
    ELSE LastMaxKeyFrom(counts, order, i + 1,
                        IF counts[order[i]] >= counts[best] THEN order[i] ELSE best)
LastMaxKey(counts) == LastMaxKeyFrom(counts, SentimentOrder, 2, SentimentOrder[1])

\* Lines 88 and 111: max(sentiment_counts, key=sentiment_counts.get).
MaxKey(counts) == MaxKeyFrom(counts, SentimentOrder, 2, SentimentOrder[1])

\* Lines 104-113 answering with the first label collected.
OverallOfFirstLabel(all) == IF all # << >> THEN all[1] ELSE "NEUTRAL"
\* Lines 104-113: the overall sentiment.
OverallSentiment(all) ==
    IF all # << >> THEN MaxKey(SentimentCounts(all)) ELSE "NEUTRAL"

\* str.lower() on one character.
LowerChar(c) ==
    CASE c = "A" -> "a"
      [] c = "B" -> "b"
      [] c = "C" -> "c"
      [] c = "D" -> "d"
      [] c = "E" -> "e"
      [] c = "F" -> "f"
      [] c = "G" -> "g"
      [] c = "H" -> "h"
      [] c = "I" -> "i"
      [] c = "J" -> "j"
      [] c = "K" -> "k"
      [] c = "L" -> "l"
      [] c = "M" -> "m"
      [] c = "N" -> "n"
      [] c = "O" -> "o"
      [] c = "P" -> "p"
      [] c = "Q" -> "q"
      [] c = "R" -> "r"
      [] c = "S" -> "s"
      [] c = "T" -> "t"
      [] c = "U" -> "u"
      [] c = "V" -> "v"
      [] c = "W" -> "w"
      [] c = "X" -> "x"
      [] c = "Y" -> "y"
      [] c = "Z" -> "z"
      [] OTHER -> c

\* text.lower()
Lower(text) == [i \in 1..Len(text) |-> LowerChar(text[i])]

\* keyword in text
Contains(text, keyword) ==
    \E i \in 0..(Len(text) - Len(keyword)) :
        SubSeq(text, i + 1, i + Len(keyword)) = keyword

\* Lines 128-129.
distress_keywords ==
    {<<"d", "e", "b", "t">>,
     <<"p", "a", "y", "m", "e", "n", "t">>,
     <<"d", "i", "f", "f", "i", "c", "u", "l", "t">>,
     <<"p", "r", "o", "b", "l", "e", "m">>,
     <<"w", "o", "r", "r", "i", "e", "d">>,
     <<"s", "t", "r", "e", "s", "s">>,
     <<"c", "a", "n", "n", "o", "t">>,
     <<"u", "n", "a", "b", "l", "e">>,
     <<"h", "e", "l", "p">>,
     <<"l", "a", "t", "e">>,
     <<"b", "e", "h", "i", "n", "d">>}

\* Lines 132-133.
positive_keywords ==
    {<<"t", "h", "a", "n", "k">>,
     <<"a", "p", "p", "r", "e", "c", "i", "a", "t", "e">>,
     <<"g", "o", "o", "d">>,
     <<"g", "r", "e", "a", "t">>,
     <<"e", "x", "c", "e", "l", "l", "e", "n", "t">>,
     <<"h", "a", "p", "p", "y">>,
     <<"s", "a", "t", "i", "s", "f", "i", "e", "d">>,
     <<"a", "g", "r", "e", "e">>,
     <<"p", "e", "r", "f", "e", "c", "t">>}

\* Lines 123-149: _analyze_customer_tone.
AnalyzeCustomerTone(text, sentiment) ==
    LET text_lower == Lower(text)
    IN  IF sentiment = "NEGATIVE"
        THEN IF \E k \in distress_keywords : Contains(text_lower, k)
             THEN "Customer showed signs of financial distress and expressed concerns about their financial situation"
             ELSE "Customer expressed dissatisfaction during the conversation"
        ELSE IF sentiment = "POSITIVE"
        THEN IF \E k \in positive_keywords : Contains(text_lower, k)
             THEN "Customer showed appreciation and maintained a positive attitude throughout the discussion"
             ELSE "Customer maintained a constructive and optimistic approach"
        ELSE IF sentiment = "MIXED"
        THEN "Customer showed varying emotions, mixing both concerns and positive engagement"
        ELSE "Customer maintained a professional and balanced tone throughout the conversation"

\* Lines 151-160: _analyze_employee_tone.
AnalyzeEmployeeTone(sentiment) ==
    IF sentiment = "POSITIVE"
    THEN "Demonstrated strong customer service with an encouraging and supportive approach"
    ELSE IF sentiment = "NEGATIVE"
    THEN "Showed signs of tension in communication style"
    ELSE IF sentiment = "MIXED"
    THEN "Displayed varying levels of engagement throughout the conversation"
    ELSE "Maintained a professional and consistent tone throughout the call"

\* Lines 80-101: the summary of a speaker whose label list is not empty.
SpeakerSummaryOf(speaker, utterances, labels) ==
    LET sentiment_counts == SentimentCounts(labels)
        dominant_sentiment == MaxKey(sentiment_counts)
    IN  [dominant_sentiment |-> dominant_sentiment,
         sentiment_counts |-> sentiment_counts,
         tone_summary |-> dominant_sentiment,
         tone_description |->
             IF speaker = SPK1
             THEN AnalyzeCustomerTone(utterances, dominant_sentiment)
             ELSE AnalyzeEmployeeTone(dominant_sentiment)]

\* The speaker the outer loop is at.
Speaker == SpeakerOrder[spk_i + 1]

\* Lines 57-58: analyze_sentiment is called.
StartAnalysis ==
    /\ spc = "start"
    /\ \E t0, t1 \in SeqsUpTo(TextChars, MaxTextLen) :
          in_speakers_text' = (SPK0 :> t0) @@ (SPK1 :> t1)
    /\ sentiment_results' = Empty
    /\ all_sentiments' = << >>
    /\ spk_i' = 0
    /\ spc' = "speaker"
    /\ UNCHANGED <<chunks, chunk_i, speaker_sentiments, overall_sentiment, calls>>
    /\ OnlyS

\* Lines 61-66: the outer loop takes the next speaker and chunks its text.
NextSpeaker ==
    /\ spc = "speaker"
    /\ spk_i < Len(SpeakerOrder)
    /\ speaker_sentiments' = << >>
    /\ chunks' = Chunks(in_speakers_text[Speaker], max_chunk_size)
    /\ chunk_i' = 0
    /\ spc' = "chunk"
    /\ UNCHANGED <<in_speakers_text, spk_i, all_sentiments, sentiment_results,
                   overall_sentiment, calls>>
    /\ OnlyS

\* Lines 69-76: a chunk that is not blank is classified; the classifier
\* answers with any label.
ClassifyChunk ==
    /\ spc = "chunk"
    /\ chunk_i < Len(chunks)
    /\ Submits(chunks[chunk_i + 1])
    /\ \E label \in Sentiments :
          /\ speaker_sentiments' = Append(speaker_sentiments, label)
          /\ all_sentiments' = Append(all_sentiments, label)
    /\ calls' = Append(calls, <<Speaker, chunks[chunk_i + 1]>>)
    /\ chunk_i' = chunk_i + 1
    /\ UNCHANGED <<spc, in_speakers_text, spk_i, chunks, sentiment_results,
                   overall_sentiment>>
    /\ OnlyS

\* Lines 69-70: a blank chunk is passed over.
SkipChunk ==
    /\ spc = "chunk"
    /\ chunk_i < Len(chunks)
    /\ ~Submits(chunks[chunk_i + 1])
    /\ chunk_i' = chunk_i + 1
    /\ UNCHANGED <<spc, in_speakers_text, spk_i, chunks, speaker_sentiments,
                   all_sentiments, sentiment_results, overall_sentiment, calls>>
    /\ OnlyS

\* Lines 71-74 and 120-121: the classifier call raises; analyze_sentiment
\* raises "Error analyzing sentiment" and returns nothing.
ClassifyFails ==
    /\ spc = "chunk"
    /\ chunk_i < Len(chunks)
    /\ Submits(chunks[chunk_i + 1])
    /\ calls' = Append(calls, <<Speaker, chunks[chunk_i + 1]>>)
    /\ spc' = "raised"
    /\ UNCHANGED <<in_speakers_text, spk_i, chunks, chunk_i, speaker_sentiments,
                   all_sentiments, sentiment_results, overall_sentiment>>
    /\ OnlyS

\* Lines 79-101 without the test of line 79.
WithSummaryAlways(results, speaker, utterances, labels) ==
    (speaker :> SpeakerSummaryOf(speaker, utterances, labels)) @@ results
\* Lines 79 and 96-101: sentiment_results[speaker] is set when the speaker has
\* at least one label.
WithSummary(results, speaker, utterances, labels) ==
    IF labels # << >>
    THEN (speaker :> SpeakerSummaryOf(speaker, utterances, labels)) @@ results
    ELSE results

\* Lines 78-101: the inner loop is over; a speaker with at least one label
\* gets an entry in sentiment_results, and the outer loop moves on.
SummarizeSpeaker ==
    /\ spc = "chunk"
    /\ chunk_i = Len(chunks)
    /\ sentiment_results' = WithSummary(sentiment_results, Speaker,
                                        in_speakers_text[Speaker], speaker_sentiments)
    /\ spk_i' = spk_i + 1
    /\ spc' = "speaker"
    /\ UNCHANGED <<in_speakers_text, chunks, chunk_i, speaker_sentiments, all_sentiments,
                   overall_sentiment, calls>>
    /\ OnlyS

\* Lines 103-118: the outer loop is over; the overall sentiment is computed
\* and the result {per_speaker: sentiment_results, overall_sentiment} returned.
ReturnAnalysis ==
    /\ spc = "speaker"
    /\ spk_i = Len(SpeakerOrder)
    /\ overall_sentiment' = OverallSentiment(all_sentiments)
    /\ spc' = "done"
    /\ UNCHANGED <<in_speakers_text, spk_i, chunks, chunk_i, speaker_sentiments,
                   all_sentiments, sentiment_results, calls>>
    /\ OnlyS

TInitIdle ==
    /\ tpc = "idle"
    /\ segments = << >>
    /\ items = << >>
    /\ speaker_map = Empty
    /\ idx = 0
    /\ current_speaker = None
    /\ current_line = << >>
    /\ transcript_text = << >>
    /\ duration = 0
    /\ speakers_text = [s \in {SPK0, SPK1} |-> << >>]

SInit ==
    /\ spc = "start"
    /\ in_speakers_text = [s \in {SPK0, SPK1} |-> << >>]
    /\ spk_i = 0
    /\ chunks = << >>
    /\ chunk_i = 0
    /\ speaker_sentiments = << >>
    /\ all_sentiments = << >>
    /\ sentiment_results = Empty
    /\ overall_sentiment = "NEUTRAL"
    /\ calls = << >>

SentimentInit ==
    TInitIdle /\ SInit /\ DInitIdle /\ CInitIdle /\ PInitIdle /\ VInitIdle /\ RInitIdle
SentimentNext ==
    \/ StartAnalysis
    \/ NextSpeaker
    \/ ClassifyChunk
    \/ SkipChunk
    \/ ClassifyFails
    \/ SummarizeSpeaker
    \/ ReturnAnalysis
SpecSentiment == SentimentInit /\ [][SentimentNext]_vars

----------------------------------------------------------------------------
(* The chunker of line 66 on its own: any text, any chunk size *)

\* Longest text and largest chunk size given to the chunker.
MaxChunkText == 4
MaxChunkArg == 3

ChunkerInit ==
    /\ TInitIdle /\ SInitIdle /\ DInitIdle /\ PInitIdle /\ VInitIdle /\ RInitIdle
    /\ cpc = "input"
    /\ c_text \in SeqsUpTo({"a", "b", " "}, MaxChunkText)
    /\ c_size \in 1..MaxChunkArg
    /\ c_chunks = << >>

\* Line 66 applied to the text.
ApplyChunks ==
    /\ cpc = "input"
    /\ c_chunks' = Chunks(c_text, c_size)
    /\ cpc' = "chunked"
    /\ UNCHANGED <<c_text, c_size>>
    /\ OnlyC

ChunkerNext == ApplyChunks
SpecChunker == ChunkerInit /\ [][ChunkerNext]_vars

\* The chunks of the text of position off on, laid end to end from off.
RECURSIVE LaidFrom(_, _, _)
LaidFrom(text, cs, off) ==
    IF cs = << >> THEN TRUE
    ELSE /\ off + Len(Head(cs)) <= Len(text)
         /\ Head(cs) = SubSeq(text, off + 1, off + Len(Head(cs)))
         /\ LaidFrom(text, Tail(cs), off + Len(Head(cs)))

\* C3: the chunks are contiguous, non-overlapping substrings of the text in
\* order (each starts where the previous one ends), each of length at most the
\* chunk size, their concatenation is the text, and an empty text has no chunk.
C3_ChunkingLossless ==
    cpc = "chunked" =>
        /\ LaidFrom(c_text, c_chunks, 0)
        /\ Concat(c_chunks) = c_text
        /\ \A i \in 1..Len(c_chunks) : Len(c_chunks[i]) <= c_size
        /\ (c_text = << >> => c_chunks = << >>)

\* C3 witness: a text split into at least two chunks, the last one shorter.
C3_Witness ==
    /\ cpc = "chunked"
    /\ c_size >= 2
    /\ Len(c_chunks) >= 2
    /\ Len(c_chunks[Len(c_chunks)]) < c_size

\* A chunk with a character that is not whitespace.
HasText(chunk) == \E i \in 1..Len(chunk) : chunk[i] \notin {" ", "\n", "\t", "\r"}

\* The chunks of speaker s that are not whitespace-only, in order.
TextChunks(s) == SelectSeq(Chunks(in_speakers_text[s], max_chunk_size), HasText)

\* The chunks the classifier was called with for speaker s, in call order.
CalledWith(s) ==
    LET mine == SelectSeq(calls, LAMBDA c : c[1] = s)
    IN  [i \in 1..Len(mine) |-> mine[i][2]]

RECURSIVE SumOver(_, _)
\* The sum of f over the set S of its arguments.
SumOver(f, S) ==
    IF S = {} THEN 0
    ELSE LET x == CHOOSE y \in S : TRUE IN f[x] + SumOver(f, S \ {x})

\* C4: a speaker in per_speaker has the four labels as keys of
\* sentiment_counts, the counts sum to the number of its chunks that are not
\* whitespace-only, which are exactly the chunks the classifier was called
\* with (one call each), and dominant_sentiment is a key of maximal count.
C4_CountsSumToClassified ==
    \A s \in DOMAIN sentiment_results :
        LET r == sentiment_results[s]
        IN  /\ DOMAIN r.sentiment_counts = {"POSITIVE", "NEGATIVE", "NEUTRAL", "MIXED"}
            /\ SumOver(r.sentiment_counts, DOMAIN r.sentiment_counts) = Len(TextChunks(s))
            /\ CalledWith(s) = TextChunks(s)
            /\ r.dominant_sentiment \in DOMAIN r.sentiment_counts
            /\ \A l \in DOMAIN r.sentiment_counts :
                  r.sentiment_counts[l] <= r.sentiment_counts[r.dominant_sentiment]

\* C4 witness: a returned analysis with a speaker that has a whitespace-only
\* chunk and two classified chunks.
C4_Witness ==
    /\ spc = "done"
    /\ \E s \in DOMAIN sentiment_results :
          /\ Len(TextChunks(s)) >= 2
          /\ Len(Chunks(in_speakers_text[s], max_chunk_size)) > Len(TextChunks(s))

\* Label l comes before label m in the order POSITIVE, NEGATIVE, NEUTRAL, MIXED.
Before(l, m) ==
    \E i, j \in 1..4 :
        /\ i < j
        /\ <<"POSITIVE", "NEGATIVE", "NEUTRAL", "MIXED">>[i] = l
        /\ <<"POSITIVE", "NEGATIVE", "NEUTRAL", "MIXED">>[j] = m

\* l is the label of maximal count that comes first in the order.
FirstMax(counts, l) ==
    \A m \in DOMAIN counts :
        /\ counts[m] <= counts[l]
        /\ (Before(m, l) => counts[m] < counts[l])

\* C5: dominant_sentiment is the label of maximal count that comes first in
\* the order POSITIVE, NEGATIVE, NEUTRAL, MIXED; the labels [POSITIVE,
\* POSITIVE, NEGATIVE] give the counts 2, 1, 0, 0 and POSITIVE, and the labels
\* [NEGATIVE, POSITIVE] give POSITIVE.
C5_DominantTieBreak ==
    /\ \A s \in DOMAIN sentiment_results :
          FirstMax(sentiment_results[s].sentiment_counts,
                   sentiment_results[s].dominant_sentiment)
    /\ (spc = "speaker" /\ spk_i >= 1 /\ speaker_sentiments # << >>) =>
          LET r == sentiment_results[SpeakerOrder[spk_i]]
          IN  /\ speaker_sentiments = <<"POSITIVE", "POSITIVE", "NEGATIVE">> =>
                    /\ r.sentiment_counts = [POSITIVE |-> 2, NEGATIVE |-> 1,
                                             NEUTRAL |-> 0, MIXED |-> 0]
                    /\ r.dominant_sentiment = "POSITIVE"
              /\ speaker_sentiments = <<"NEGATIVE", "POSITIVE">> =>
                    r.dominant_sentiment = "POSITIVE"

\* C5 witness: a speaker has just been summarised from the labels [NEGATIVE,
\* POSITIVE], after a speaker with the labels [POSITIVE, POSITIVE, NEGATIVE].
C5_Witness ==
    /\ spc = "speaker"
    /\ spk_i = 2
    /\ speaker_sentiments = <<"NEGATIVE", "POSITIVE">>
    /\ all_sentiments = <<"POSITIVE", "POSITIVE", "NEGATIVE", "NEGATIVE", "POSITIVE">>
    /\ DOMAIN sentiment_results = {SPK0, SPK1}

\* The labels of all speakers of per_speaker pooled: label -> count.
Pooled == [l \in {"POSITIVE", "NEGATIVE", "NEUTRAL", "MIXED"} |->
              SumOver([s \in DOMAIN sentiment_results |->
                          sentiment_results[s].sentiment_counts[l]],
                      DOMAIN sentiment_results)]

\* C6: overall_sentiment is the label of maximal count, first in the order
\* POSITIVE, NEGATIVE, NEUTRAL, MIXED, over the labels of all speakers'
\* classified chunks pooled.
C6_OverallOverPooledLabels ==
    (spc = "done" /\ DOMAIN sentiment_results # {}) =>
        FirstMax(Pooled, overall_sentiment)

\* C6 witness: a returned analysis whose overall sentiment differs from the
\* dominant sentiment of both speakers.
C6_Witness ==
    /\ spc = "done"
    /\ DOMAIN sentiment_results = {SPK0, SPK1}
    /\ \A s \in {SPK0, SPK1} : sentiment_results[s].dominant_sentiment # overall_sentiment

\* C7: in a returned analysis, a speaker all of whose chunks are empty or
\* whitespace-only is absent from per_speaker and no classifier call was made
\* for it; when this is so for every speaker, per_speaker is {} and
\* overall_sentiment is NEUTRAL.
C7_BlankSpeakerOmitted ==
    spc = "done" =>
        /\ \A s \in {SPK0, SPK1} :
              TextChunks(s) = << >> =>
                  (s \notin DOMAIN sentiment_results /\ CalledWith(s) = << >>)
        /\ (\A s \in {SPK0, SPK1} : TextChunks(s) = << >>) =>
              (sentiment_results = << >> /\ overall_sentiment = "NEUTRAL")

\* C7 witness: a returned analysis in which one speaker's text is blank but
\* not empty and the other speaker was classified.
C7_Witness ==
    /\ spc = "done"
    /\ \E s \in {SPK0, SPK1} :
          /\ in_speakers_text[s] # << >>
          /\ TextChunks(s) = << >>
    /\ DOMAIN sentiment_results # {}

\* A returned analysis in which every speaker's text is blank, one not empty.
C7_WitnessAllBlank ==
    /\ spc = "done"
    /\ \A s \in {SPK0, SPK1} : TextChunks(s) = << >>
    /\ \E s \in {SPK0, SPK1} : in_speakers_text[s] # << >>

----------------------------------------------------------------------------
(* DynamoDBService: values *)

\* Python values, tagged with their type. A dict is a function from its keys;
\* a str is its characters (a literal the code never slices is kept as one
\* token); a number is its value in ticks of 0.5.
Str(s) == [t |-> "str", v |-> s]
Dict(d) == [t |-> "dict", v |-> d]
List(l) == [t |-> "list", v |-> l]
IntNum(n) == [t |-> "int", v |-> n]
FloatNum(n) == [t |-> "float", v |-> n]
DecimalNum(n) == [t |-> "Decimal", v |-> n]
TimeStamp(n) == [t |-> "isotime", v |-> n]
NoneValue == [t |-> "null", v |-> << >>]
Bool(b) == [t |-> "bool", v |-> b]

\* `not x`
Falsy(x) ==
    CASE x.t = "str" -> x.v = << >>
      [] x.t = "dict" -> DOMAIN x.v = {}
      [] x.t = "list" -> x.v = << >>
      [] x.t = "null" -> TRUE
      [] x.t = "bool" -> ~x.v
      [] x.t \in {"int", "float", "Decimal"} -> x.v = 0
      [] OTHER -> FALSE

\* k in d, for a dict d
Has(d, k) == d.t = "dict" /\ k \in DOMAIN d.v

\* d with d[k] = x
With(d, k, x) == [j \in DOMAIN d \cup {k} |-> IF j = k THEN x ELSE d[j]]

\* str(Decimal(str(x))) for a number of n ticks: "0.0", "0.5", "1.0", ...
DecimalText(n) ==
    LET digit == <<"0", "1", "2", "3", "4", "5", "6", "7", "8", "9">>
    IN  <<digit[(n \div 2) + 1], ".", digit[((n % 2) * 5) + 1]>>

RECURSIVE FloatToDecimal(_)
\* Lines 20-28: _float_to_decimal.
FloatToDecimal(obj) ==
    CASE obj.t = "float" -> DecimalNum(obj.v)
      [] obj.t = "dict" -> Dict([k \in DOMAIN obj.v |-> FloatToDecimal(obj.v[k])])
      [] obj.t = "list" -> List([i \in DOMAIN obj.v |-> FloatToDecimal(obj.v[i])])
      [] OTHER -> obj

RECURSIVE DecimalToFloat(_)
\* Lines 126-133: decimal_to_float.
DecimalToFloat(obj) ==
    CASE obj.t = "Decimal" -> FloatNum(obj.v)
      [] obj.t = "dict" -> Dict([k \in DOMAIN obj.v |-> DecimalToFloat(obj.v[k])])
      [] obj.t = "list" -> List([i \in DOMAIN obj.v |-> DecimalToFloat(obj.v[i])])
      [] OTHER -> obj

RECURSIVE JsonRoundTrip(_)
\* Lines 87-94: json.loads(json.dumps(x, default=str), parse_float=Decimal).
\* A Decimal is not JSON serializable and goes through default=str; a float
\* is written as a number and read back as a Decimal.
JsonRoundTrip(x) ==
    CASE x.t = "Decimal" -> Str(DecimalText(x.v))
      [] x.t = "float" -> DecimalNum(x.v)
      [] x.t = "dict" -> Dict([k \in DOMAIN x.v |-> JsonRoundTrip(x.v[k])])
      [] x.t = "list" -> List([i \in DOMAIN x.v |-> JsonRoundTrip(x.v[i])])
      [] OTHER -> x

\* The JSON texts of the model.
JsonEmptyObject == <<"{", "}">>
NotJson == <<"o", "o", "p", "s">>

\* Line 141: json.loads(text), for the texts of the model: the value, or
\* ok = FALSE for the JSONDecodeError.
JsonLoads(text) ==
    IF text = JsonEmptyObject THEN [ok |-> TRUE, val |-> Dict(Empty)]
    ELSE [ok |-> FALSE, val |-> NoneValue]

----------------------------------------------------------------------------
(* DynamoDBService: _validate_transcript, lines 30-53 *)

RECURSIVE SplitOn(_, _, _)
\* s.split(sep) for a one-character sep: acc is the part being read.
SplitOn(s, sep, acc) ==
    IF s = << >> THEN <<acc>>
    ELSE IF Head(s) = sep THEN <<acc>> \o SplitOn(Tail(s), sep, << >>)
    ELSE SplitOn(Tail(s), sep, Append(acc, Head(s)))

RECURSIVE JoinWith(_, _)
\* sep.join(parts)
JoinWith(parts, sep) ==
    IF parts = << >> THEN << >>
    ELSE IF Len(parts) = 1 THEN Head(parts)
    ELSE Head(parts) \o sep \o JoinWith(Tail(parts), sep)

Spk0Text == <<"s", "p", "k", "_", "0">>
Spk1Text == <<"s", "p", "k", "_", "1">>

RECURSIVE FormatLinesAlwaysLabels(_, _, _)
\* The loop without the test of line 45: every line gets a label.
FormatLinesAlwaysLabels(lines, formatted_lines, speaker) ==
    IF lines = << >> THEN formatted_lines
    ELSE LET line == Strip(Head(lines))
         IN  IF line = << >>
             THEN FormatLinesAlwaysLabels(Tail(lines), formatted_lines, speaker)
             ELSE FormatLinesAlwaysLabels(Tail(lines),
                                          Append(formatted_lines, speaker \o <<":", " ">> \o line),
                                          IF speaker = Spk0Text THEN Spk1Text ELSE Spk0Text)
RECURSIVE FormatLinesNoToggle(_, _, _)
\* The loop without line 51: the speaker stays after a line got its label.
FormatLinesNoToggle(lines, formatted_lines, speaker) ==
    IF lines = << >> THEN formatted_lines
    ELSE LET line == Strip(Head(lines))
         IN  IF line = << >>
             THEN FormatLinesNoToggle(Tail(lines), formatted_lines, speaker)
             ELSE IF StartsWith(line, Spk0Text \o <<":">>) \/ StartsWith(line, Spk1Text \o <<":">>)
             THEN FormatLinesNoToggle(Tail(lines), Append(formatted_lines, line),
                                      Slice(line, 0, 5))
             ELSE FormatLinesNoToggle(Tail(lines),
                                      Append(formatted_lines, speaker \o <<":", " ">> \o line),
                                      speaker)
RECURSIVE FormatLines(_, _, _)
\* Lines 39-51: the loop over the lines.
FormatLines(lines, formatted_lines, speaker) ==
    IF lines = << >> THEN formatted_lines
    ELSE LET line == Strip(Head(lines))
         IN  IF line = << >>
             THEN FormatLines(Tail(lines), formatted_lines, speaker)
             ELSE IF StartsWith(line, Spk0Text \o <<":">>) \/ StartsWith(line, Spk1Text \o <<":">>)
             THEN FormatLines(Tail(lines), Append(formatted_lines, line), Slice(line, 0, 5))
             ELSE FormatLines(Tail(lines),
                              Append(formatted_lines, speaker \o <<":", " ">> \o line),
                              IF speaker = Spk0Text THEN Spk1Text ELSE Spk0Text)

\* Lines 30-53.
ValidateTranscript(text) ==
    IF text = << >> THEN << >>
    ELSE JoinWith(FormatLines(SplitOn(text, "\n", << >>), << >>, Spk0Text),
                  <<"\n">>)

----------------------------------------------------------------------------
(* _validate_transcript on its own *)

\* Most lines of a text handed to _validate_transcript.
MaxValidateLines == 4

\* Lines of such a text: empty, blank, without label, with the label of
\* spk_0 or spk_1 (with and without text, with space around), with another
\* label.
ValidateLines ==
    {<< >>,
     <<" ">>,
     <<"x">>,
     <<" ", "y", " ">>,
     Spk0Text \o <<":", " ", "a">>,
     <<" ">> \o Spk1Text \o <<":", " ", "b", " ">>,
     Spk1Text \o <<":">>,
     <<"s", "p", "k", "_", "2", ":", " ", "c">>}

\* The texts: up to MaxValidateLines lines joined by "\n".
ValidateTexts ==
    {JoinWith(ls, <<"\n">>) : ls \in SeqsUpTo(ValidateLines, MaxValidateLines)}

\* dynamodb.py:30-53, as store_analysis calls it (line 60).
Validate ==
    /\ vpc = "input"
    /\ v_result' = ValidateTranscript(v_text)
    /\ vpc' = "validated"
    /\ UNCHANGED <<v_text, tvars, svars, dvars, cvars, rvars, pvars>>

\* dynamodb.py:30-53 applied to what it returned, as get_analysis does with
\* the stored text (line 163).
ValidateAgain ==
    /\ vpc = "validated"
    /\ v_result' = ValidateTranscript(v_result)
    /\ vpc' = "validated_again"
    /\ UNCHANGED <<v_text, tvars, svars, dvars, cvars, rvars, pvars>>

ValidateInit ==
    /\ TInitIdle /\ SInitIdle /\ DInitIdle /\ CInitIdle /\ PInitIdle /\ RInitIdle
    /\ vpc = "input"
    /\ v_text \in ValidateTexts
    /\ v_result = << >>
ValidateNext == Validate \/ ValidateAgain
SpecValidate == ValidateInit /\ [][ValidateNext]_vars

----------------------------------------------------------------------------
(* DynamoDBService: inputs *)

\* File keys.
FileKeys == {<<"a">>, <<"b">>}

\* store_analysis calls in a run of the model (the clock stops there).
MaxStores == 2

Label(l) == Str(<<l>>)

\* The fallback literals of lines 66-74 and 143-158.
NotAvailable == Dict([tone_summary |-> Str(<<"Analysis not available">>)])
FallbackPerSpeaker == Dict([spk_0 |-> NotAvailable, spk_1 |-> NotAvailable])
FallbackSentiment(overall) ==
    Dict([per_speaker |-> FallbackPerSpeaker,
          timeline |-> List(<< >>),
          overall_sentiment |-> overall])
DefaultSpeakersText == Dict([spk_0 |-> Str(<< >>), spk_1 |-> Str(<< >>)])

\* Lines 65-75: required_fields.
required_fields ==
    [speakers_text |-> DefaultSpeakersText,
     sentiment_analysis |-> FallbackSentiment(Label("NEUTRAL"))]

\* A speaker summary as analyze_sentiment returns it (lines 96-101).
SummaryValue(dominant, n) ==
    Dict([dominant_sentiment |-> Label(dominant),
          sentiment_counts |->
              Dict([l \in Sentiments |-> IntNum(IF l = dominant THEN n ELSE 0)]),
          tone_summary |-> Label(dominant),
          tone_description |-> Str(<<AnalyzeEmployeeTone(dominant)>>)])

\* What analyze_sentiment returns (lines 115-118) for one classified speaker.
ComprehendValue ==
    Dict([per_speaker |-> Dict([spk_0 |-> SummaryValue("POSITIVE", 1)]),
          overall_sentiment |-> Label("POSITIVE")])

\* sentiment_analysis as get_transcription_result returns it (lines 232-235)
\* and process_audio_file passes it on (app.py:216, 228, 241-243).
PipelineSentiment ==
    Dict([comprehend_analysis |-> ComprehendValue, llm_analysis |-> NoneValue])

\* sentiment_analysis in the shape the readers of the record index
\* (app.py:385-394, 476-477, 525-526).
FullSentiment ==
    Dict([per_speaker |-> Dict([spk_0 |-> SummaryValue("POSITIVE", 1),
                                spk_1 |-> SummaryValue("NEGATIVE", 2)]),
          timeline |-> List(<< >>),
          overall_sentiment |-> Label("NEGATIVE")])

\* The sentiment_analysis values of the model; Absent stands for a missing key.
Absent == [t |-> "absent", v |-> << >>]
SentimentInputs == {Absent, Dict(Empty), PipelineSentiment, FullSentiment}

UnlabelledTranscript == Hello \o <<"\n", " ">> \o Hi \o <<"\n">>

\* A dict from the pairs <<key, value>> whose value is not Absent.
DictOf(pairs) ==
    LET present == {i \in 1..Len(pairs) : pairs[i][2] # Absent}
    IN  [k \in {pairs[i][1] : i \in present} |->
            pairs[CHOOSE i \in present : pairs[i][1] = k][2]]

\* The analysis_data arguments of the model.
DataInputs ==
    {DictOf(<< <<"sentiment_analysis", sa>> >>) : sa \in SentimentInputs}
    \cup
    {DictOf(<< <<"speakers_text", Dict(Empty)>>, <<"sentiment_analysis", Dict(Empty)>> >>)}
    \cup
    {DictOf(<< <<"transcript_text", Str(tt)>>,
               <<"speakers_text", Dict([spk_0 |-> Str(<<" ">> \o Hello),
                                        spk_1 |-> Str(<<" ">> \o Hi)])>>,
               <<"sentiment_analysis", sa>>,
               <<"sentiment", Label("NEGATIVE")>>,
               <<"duration", FloatNum(3)>> >>) :
        tt \in {ScenarioTranscript, UnlabelledTranscript},
        sa \in {FullSentiment, PipelineSentiment, Absent}}

----------------------------------------------------------------------------
(* DynamoDBService: the code *)

\* Lines 59-62: the transcript is validated in place.
WithValidTranscript(d) ==
    IF "transcript_text" \in DOMAIN d
    THEN [d EXCEPT !["transcript_text"] = Str(ValidateTranscript(@.v))]
    ELSE d

RECURSIVE WithDefaults(_, _)
\* Lines 78-80: a required field that is missing or falsy gets its default.
WithDefaults(d, fields) ==
    IF fields = {} THEN d
    ELSE LET field == CHOOSE f \in fields : TRUE
             filled == IF field \notin DOMAIN d \/ Falsy(d[field])
                       THEN With(d, field, required_fields[field])
                       ELSE d
         IN  WithDefaults(filled, fields \ {field})

\* Lines 57-80: what store_analysis makes of the caller's dict, in place.
Prepared(d) == WithDefaults(WithValidTranscript(d), DOMAIN required_fields)

\* Lines 82-94: the converted copy.
Converted(d) ==
    LET decimals == FloatToDecimal(Dict(d)).v
    IN  IF "sentiment_analysis" \in DOMAIN decimals
        THEN [decimals EXCEPT !["sentiment_analysis"] = JsonRoundTrip(@)]
        ELSE decimals

\* Lines 97-101: {'file_key': file_key, 'timestamp': now, **analysis_data}.
ItemOf(key, time, d) ==
    d @@ [file_key |-> Str(key), timestamp |-> TimeStamp(time)]

\* Line 106 with a conditional put: an item already held under the key is
\* kept.
PutItemIfAbsent(tbl, key, item) ==
    IF key \in DOMAIN tbl THEN tbl ELSE With(tbl, key, item)
\* Line 106 with a put that adds the fields of the new item to the item
\* already held under the key.
PutItemMerging(tbl, key, item) ==
    With(tbl, key, IF key \in DOMAIN tbl THEN item @@ tbl[key] ELSE item)
\* Line 106: put_item puts the item under its key in place of any item held
\* there.
PutItem(tbl, key, item) == With(tbl, key, item)

\* Lines 55-109: store_analysis succeeds.
StoreAnalysis ==
    /\ now < MaxStores
    /\ \E key \in FileKeys, d \in DataInputs :
          /\ file_key' = key
          /\ data_in' = d
          /\ analysis_data' = Prepared(d)
          /\ LET item == ItemOf(key, now, Converted(Prepared(d)))
             IN  /\ table' = PutItem(table, key, item)
                 /\ written' = Append(written, [key |-> key, item |-> item])
    /\ now' = now + 1
    /\ dpc' = "stored"
    /\ get_key' = << >>
    /\ last_get' = NoneValue
    /\ OnlyD

\* Lines 55-109 once more: after a successful store_analysis(file_key, d) the
\* caller stores the same data under the same key again, handing over an
\* equal copy of d or the dict the first call changed in place.
StoreAgain ==
    /\ dpc = "stored"
    /\ now < MaxStores
    /\ \E d \in {data_in, analysis_data} :
          /\ analysis_data' = Prepared(d)
          /\ LET item == ItemOf(file_key, now, Converted(Prepared(d)))
             IN  /\ table' = PutItem(table, file_key, item)
                 /\ written' = Append(written, [key |-> file_key, item |-> item])
    /\ now' = now + 1
    /\ dpc' = "stored_again"
    /\ get_key' = << >>
    /\ last_get' = NoneValue
    /\ UNCHANGED <<file_key, data_in>>
    /\ OnlyD

\* Lines 55-113: put_item raises; store_analysis raises "Error storing
\* analysis" after it has changed the caller's dict.
StoreFails ==
    /\ now < MaxStores
    /\ \E key \in FileKeys, d \in DataInputs :
          /\ file_key' = key
          /\ data_in' = d
          /\ analysis_data' = Prepared(d)
    /\ now' = now + 1
    /\ dpc' = "store_failed"
    /\ get_key' = << >>
    /\ last_get' = NoneValue
    /\ UNCHANGED <<table, written>>
    /\ OnlyD

\* Lines 137-159: the sentiment_analysis of a fetched item.
WithSentimentStructure(item) ==
    LET fallback ==
            FallbackSentiment(IF "sentiment" \in DOMAIN item
                              THEN item["sentiment"] ELSE Label("NEUTRAL"))
    IN  IF "sentiment_analysis" \in DOMAIN item
        THEN IF item["sentiment_analysis"].t = "str"
             THEN LET parsed == JsonLoads(item["sentiment_analysis"].v)
                  IN  [item EXCEPT !["sentiment_analysis"] =
                          IF parsed.ok THEN parsed.val ELSE fallback]
             ELSE item
        ELSE With(item, "sentiment_analysis", fallback)

RECURSIVE ReadBack(_)
\* Lines 118-123: the item as get_item hands it over. DynamoDB has a single
\* number type, which the resource API returns as Decimal.
ReadBack(obj) ==
    CASE obj.t = "int" -> DecimalNum(obj.v)
      [] obj.t = "dict" -> Dict([k \in DOMAIN obj.v |-> ReadBack(obj.v[k])])
      [] obj.t = "list" -> List([i \in DOMAIN obj.v |-> ReadBack(obj.v[i])])
      [] OTHER -> obj

\* Lines 118-165: what get_analysis makes of the item in the table.
Fetched(item) ==
    WithValidTranscript(WithSentimentStructure(DecimalToFloat(ReadBack(Dict(item))).v))

\* Lines 115-167: get_analysis returns the item, or None when there is none.
GetAnalysis ==
    /\ \E key \in FileKeys :
          /\ get_key' = key
          /\ last_get' = IF key \in DOMAIN table THEN Dict(Fetched(table[key]))
                         ELSE NoneValue
    /\ dpc' = "got"
    /\ UNCHANGED <<table, written, file_key, data_in, analysis_data, now>>
    /\ OnlyD

\* Lines 118-120 and 169-171: get_item raises; get_analysis raises "Error
\* getting analysis".
GetFails ==
    /\ \E key \in FileKeys : get_key' = key
    /\ dpc' = "get_failed"
    /\ last_get' = NoneValue
    /\ UNCHANGED <<table, written, file_key, data_in, analysis_data, now>>
    /\ OnlyD

\* A record written before this code (no sentiment_analysis, or one kept as
\* text), which get_analysis still has to read.
LegacyItems ==
    {DictOf(<< <<"file_key", Str(<<"b">>)>>, <<"sentiment", sent>>,
               <<"sentiment_analysis", sa>> >>) :
        sent \in {Label("POSITIVE")},
        sa \in {Absent, Str(NotJson), Str(JsonEmptyObject)}}

DInit ==
    /\ dpc = "idle"
    /\ \/ table = Empty /\ written = << >>
       \/ \E it \in LegacyItems :
             /\ table = With(Empty, <<"b">>, it)
             /\ written = <<[key |-> <<"b">>, item |-> it]>>
    /\ file_key = << >>
    /\ get_key = << >>
    /\ data_in = Empty
    /\ analysis_data = Empty
    /\ last_get = NoneValue
    /\ now = 0

StoreInit ==
    TInitIdle /\ SInitIdle /\ DInit /\ CInitIdle /\ PInitIdle /\ VInitIdle /\ RInitIdle
StoreNext == StoreAnalysis \/ StoreAgain \/ StoreFails \/ GetAnalysis \/ GetFails
SpecStore == StoreInit /\ [][StoreNext]_vars

----------------------------------------------------------------------------
(* DynamoDBService: claims *)

\* sa has per_speaker.spk_0, per_speaker.spk_1, timeline and overall_sentiment.
HasSentimentStructure(sa) ==
    /\ Has(sa, "per_speaker")
    /\ Has(sa.v["per_speaker"], "spk_0")
    /\ Has(sa.v["per_speaker"], "spk_1")
    /\ Has(sa, "timeline")
    /\ Has(sa, "overall_sentiment")

\* C9: after a successful store_analysis the item written contains
\* speakers_text and sentiment_analysis with per_speaker.spk_0,
\* per_speaker.spk_1, timeline and overall_sentiment, whatever the input was,
\* and the fallback values where the input had nothing for the field.
C9_StoredItemHasRequiredFields ==
    dpc = "stored" =>
        LET item == table[file_key]
        IN  /\ "speakers_text" \in DOMAIN item
            /\ "sentiment_analysis" \in DOMAIN item
            /\ HasSentimentStructure(item["sentiment_analysis"])
            /\ ("speakers_text" \notin DOMAIN data_in \/ Falsy(data_in["speakers_text"])) =>
                  item["speakers_text"] = DefaultSpeakersText
            /\ ("sentiment_analysis" \notin DOMAIN data_in
                    \/ Falsy(data_in["sentiment_analysis"])) =>
                  item["sentiment_analysis"] = FallbackSentiment(Label("NEUTRAL"))

\* C10: a record returned by get_analysis contains sentiment_analysis with
\* per_speaker.spk_0, per_speaker.spk_1, timeline and overall_sentiment,
\* whatever was stored under the key; stated here for the records that
\* store_analysis itself wrote (the key read is the key last stored).
C10_FetchedRecordHasSentimentStructure ==
    (dpc = "got" /\ last_get # NoneValue /\ get_key = file_key) =>
        /\ "sentiment_analysis" \in DOMAIN last_get.v
        /\ HasSentimentStructure(last_get.v["sentiment_analysis"])

----------------------------------------------------------------------------
(* utils/helpers.py: the pure helpers process_audio_file calls *)

\* The characters clean_filename removes (helpers.py:30).
InvalidFilenameChars == {"<", ">", ":", "\"", "/", "\\", "|", "?", "*"}

\* helpers.py:27-33: clean_filename.
clean_filename(filename) ==
    LET cleaned == SelectSeq(filename, LAMBDA c : c \notin InvalidFilenameChars)
    IN  [i \in 1..Len(cleaned) |-> IF cleaned[i] = " " THEN "_" ELSE cleaned[i]]

\* file_key.split('/')[-1]   (app.py:237)
LastPathPart(key) ==
    LET parts == SplitOn(key, "/", << >>) IN parts[Len(parts)]

\* helpers.py:44-48.
verification_phrases ==
    {<<"v", "e", "r", "i", "f", "i", "c", "a", "t", "i", "o", "n", " ", "c", "o", "m", "p", "l", "e", "t", "e">>,
     <<"v", "e", "r", "i", "f", "i", "e", "d", " ", "s", "u", "c", "c", "e", "s", "s", "f", "u", "l", "l", "y">>,
     <<"i", "d", "e", "n", "t", "i", "t", "y", " ", "c", "o", "n", "f", "i", "r", "m", "e", "d">>}

\* Characters of the class [A-Za-z\s] (helpers.py:55).
NameChars ==
    {"a", "b", "c", "d", "e", "f", "g", "h", "i", "j", "k", "l", "m", "n", "o", "p", "q",
     "r", "s", "t", "u", "v", "w", "x", "y", "z"}
    \cup {"A", "B", "C", "D", "E", "F", "G", "H", "I", "J", "K", "L", "M", "N", "O", "P",
          "Q", "R", "S", "T", "U", "V", "W", "X", "Y", "Z"}
    \cup Whitespace

RECURSIVE TakeNameChars(_)
\* The longest prefix of s made of NameChars.
TakeNameChars(s) ==
    IF s # << >> /\ Head(s) \in NameChars THEN <<Head(s)>> \o TakeNameChars(Tail(s))
    ELSE << >>

NameIs == <<"n", "a", "m", "e", " ", "i", "s", " ">>

\* helpers.py:55-57: re.search(r'name is ([A-Za-z\s]+)', text), the stripped
\* group of the leftmost match, or None.
CustomerName(text) ==
    LET starts == {i \in 1..Len(text) :
                      /\ StartsWith(SubSeq(text, i, Len(text)), NameIs)
                      /\ TakeNameChars(SubSeq(text, i + Len(NameIs), Len(text))) # << >>}
    IN  IF starts = {} THEN NoneValue
        ELSE LET i == CHOOSE j \in starts : \A k \in starts : j <= k
             IN  Str(Strip(TakeNameChars(SubSeq(text, i + Len(NameIs), Len(text)))))

Account == <<"a", "c", "c", "o", "u", "n", "t">>
Number == <<"n", "u", "m", "b", "e", "r">>

\* helpers.py:60: re.search(r'account.*?number|account.*?#', text): "account"
\* and, later on the same line, "number" or "#".
AccountMentioned(text) ==
    \E n \in DOMAIN SplitOn(text, "\n", << >>) :
        LET line == SplitOn(text, "\n", << >>)[n]
        IN  \E i \in 1..Len(line) :
               /\ StartsWith(SubSeq(line, i, Len(line)), Account)
               /\ \/ Contains(SubSeq(line, i + Len(Account), Len(line)), Number)
                  \/ Contains(SubSeq(line, i + Len(Account), Len(line)), <<"#">>)

\* helpers.py:35-63: extract_customer_info.
extract_customer_info(text) ==
    Dict([verification_complete |->
              Bool(\E phrase \in verification_phrases : Contains(Lower(text), phrase)),
          customer_name |-> CustomerName(text),
          account_mentioned |-> Bool(AccountMentioned(Lower(text)))])

\* helpers.py:118-129.
common_topics ==
    <<<<"p", "a", "y", "m", "e", "n", "t">>,
      <<"a", "c", "c", "o", "u", "n", "t">>,
      <<"b", "a", "l", "a", "n", "c", "e">>,
      <<"t", "r", "a", "n", "s", "f", "e", "r">>,
      <<"l", "o", "a", "n">>,
      <<"c", "o", "m", "p", "l", "a", "i", "n", "t">>,
      <<"i", "s", "s", "u", "e">>,
      <<"s", "u", "p", "p", "o", "r", "t">>,
      <<"h", "e", "l", "p">>,
      <<"p", "r", "o", "b", "l", "e", "m">>>>

\* helpers.py:114-136: extract_topics. The code returns list(set), whose
\* order is the set's; the topics are listed here in the order of common_topics.
extract_topics(text) ==
    LET found == SelectSeq(common_topics, LAMBDA topic : Contains(Lower(text), topic))
    IN  List([i \in 1..Len(found) |-> Str(found[i])])

\* helpers.py:70-78: the texts the action patterns match.
action_patterns ==
    {<<"n", "e", "e", "d", " ", "t", "o">>,
     <<"n", "e", "e", "d", "s", " ", "t", "o">>,
     <<"s", "h", "o", "u", "l", "d">>,
     <<"m", "u", "s", "t">>,
     <<"r", "e", "q", "u", "i", "r", "e", "d", " ", "t", "o">>,
     <<"a", "c", "t", "i", "o", "n", " ", "i", "t", "e", "m", ":">>,
     <<"a", "c", "t", "i", "o", "n", " ", "i", "t", "e", "m", "s", ":">>,
     <<"f", "o", "l", "l", "o", "w", "-", "u", "p", ":">>,
     <<"f", "o", "l", "l", "o", "w", " ", "u", "p", ":">>,
     <<"f", "o", "l", "l", "o", "w", "-", "u", "p", "s", ":">>,
     <<"f", "o", "l", "l", "o", "w", " ", "u", "p", "s", ":">>,
     <<"n", "e", "x", "t", " ", "s", "t", "e", "p", ":">>,
     <<"n", "e", "x", "t", " ", "s", "t", "e", "p", "s", ":">>}

RECURSIVE ActionItemsFrom(_, _)
\* helpers.py:83-90: the loop over the sentences.
ActionItemsFrom(sentences, action_items) ==
    IF sentences = << >> THEN action_items
    ELSE LET sentence == Head(sentences)
             action_item == Strip(sentence)
             matches == \E pattern \in action_patterns : Contains(Lower(sentence), pattern)
             seen == \E i \in 1..Len(action_items) : action_items[i] = action_item
         IN  ActionItemsFrom(Tail(sentences),
                             IF matches /\ action_item # << >> /\ ~seen
                             THEN Append(action_items, action_item)
                             ELSE action_items)

\* helpers.py:65-92: parse_action_items.
parse_action_items(insights_text) ==
    LET found == ActionItemsFrom(SplitOn(insights_text, ".", << >>), << >>)
    IN  List([i \in 1..Len(found) |-> Str(found[i])])

\* helpers.py:94-112: calculate_speaker_ratio, in half percents. A segment
\* is [speaker, start_time, end_time].
calculate_speaker_ratio(transcript_segments) ==
    LET names == {transcript_segments[i].speaker : i \in DOMAIN transcript_segments}
        Of(sp) == {i \in DOMAIN transcript_segments : transcript_segments[i].speaker = sp}
        RECURSIVE Sum(_)
        Sum(I) == IF I = {} THEN 0
                  ELSE LET i == CHOOSE j \in I : TRUE
                       IN  (transcript_segments[i].end_time
                                - transcript_segments[i].start_time) + Sum(I \ {i})
        total_duration == Sum(DOMAIN transcript_segments)
    IN  Dict([sp \in names |-> FloatNum((Sum(Of(sp)) * 200) \div total_duration)])

----------------------------------------------------------------------------
(* process_audio_file: inputs *)

\* Longest items list of the result a pipeline run fetches, and the number
\* of times the wait loop sleeps.
MaxPipelineItems == 2
MaxPolls == 1

\* The items (words) and segment lists of the results a pipeline run fetches.
PipelineItems ==
    {[type |-> "pronunciation", content |-> <<"I">>, start_time |-> t, end_time |-> t + 1] :
        t \in Times}
PipelineSegmentLists ==
    {<<[speaker_label |-> SPK0, items |-> <<0>>], [speaker_label |-> SPK1, items |-> <<1>>]>>,
     <<[speaker_label |-> SPK0, items |-> <<0, 1>>]>>}

\* What the exception of a failing remote call says.
Causes == {"ThrottlingException"}

\* Completions of the Bedrock model: a parsed tone report, a summary, and
\* insights with an action item.
LlmReport == Dict([CUSTOMER_INITIAL_TONE |-> Str(<<"The customer was calm.">>)])
SummaryText == <<"- Main purpose of call: payment plan">>
SummaryFailed == <<"An error occurred while generating the summary.">>
MustCall == <<"M", "u", "s", "t", " ", "c", "a", "l", "l">>
InsightsText == MustCall \o <<".">>

\* A record an earlier run stored under the key "a".
EarlierData ==
    DictOf(<< <<"transcript", Str(ScenarioTranscript)>>,
              <<"sentiment", Label("NEUTRAL")>>,
              <<"sentiment_analysis", PipelineSentiment>>,
              <<"duration", FloatNum(4)>> >>)
EarlierItem == ItemOf(<<"a">>, 0, Converted(Prepared(EarlierData)))

\* The table a run starts with.
InitialTable == With(Empty, <<"a">>, EarlierItem)

----------------------------------------------------------------------------
(* process_audio_file: the values it builds *)

\* All orders of the elements of a set.
OrdersOf(S) ==
    {o \in SeqsUpTo(S, Cardinality(S)) :
        Len(o) = Cardinality(S) /\ \A i, j \in 1..Len(o) : i # j => o[i] # o[j]}

\* transcription.py:96-101 as a Python value.
SummaryDict(r) ==
    Dict([dominant_sentiment |-> Label(r.dominant_sentiment),
          sentiment_counts |-> Dict([l \in Sentiments |-> IntNum(r.sentiment_counts[l])]),
          tone_summary |-> Label(r.tone_summary),
          tone_description |-> Str(<<r.tone_description>>)])

\* transcription.py:115-118: what analyze_sentiment returned.
ComprehendResult ==
    Dict([per_speaker |->
              Dict([s \in DOMAIN sentiment_results |-> SummaryDict(sentiment_results[s])]),
          overall_sentiment |-> Label(overall_sentiment)])

\* transcription.py:178 and 213-214: duration is the int 0 until a word with
\* a later end time makes it a float.
DurationValue == IF duration > 0 THEN FloatNum(duration) ELSE IntNum(0)

\* transcription.py:232-243: what get_transcription_result returned.
TranscriptResult ==
    Dict([transcript_text |-> Str(transcript_text),
          duration |-> DurationValue,
          speakers |-> List([i \in 1..Len(speakers) |-> Label(speakers[i])]),
          speakers_text |-> Dict([s \in DOMAIN speakers_text |-> Str(speakers_text[s])]),
          sentiment_analysis |->
              Dict([comprehend_analysis |-> ComprehendResult,
                    llm_analysis |-> llm_sentiment])])

\* d.get(k, default)
GetOr(d, k, default) == IF k \in DOMAIN d.v THEN d.v[k] ELSE default

RECURSIVE JsonDumpsLoads(_)
\* app.py:241-243: json.loads(json.dumps(x, default=str)). A value json
\* cannot serialize goes through str(); numbers, texts and None come back
\* as they were.
JsonDumpsLoads(x) ==
    CASE x.t = "Decimal" -> Str(DecimalText(x.v))
      [] x.t = "dict" -> Dict([k \in DOMAIN x.v |-> JsonDumpsLoads(x.v[k])])
      [] x.t = "list" -> List([i \in DOMAIN x.v |-> JsonDumpsLoads(x.v[i])])
      [] OTHER -> x

\* app.py:216-222.
SentimentAnalysisOf(transcript_result) ==
    LET sentiment_analysis == GetOr(transcript_result, "sentiment_analysis", Dict(Empty))
    IN  IF sentiment_analysis.t # "dict"
        THEN Dict([per_speaker |-> Dict(Empty),
                   timeline |-> List(<< >>),
                   overall_sentiment |-> Label("NEUTRAL")])
        ELSE sentiment_analysis

\* app.py:198-200, 210 and 224-243: analysis_data as handed to store_analysis.
AssembledRecord(key, transcript_result, summary_text, insights_text, time) ==
    LET text == transcript_result.v["transcript_text"].v
        sentiment_analysis == SentimentAnalysisOf(transcript_result)
    IN  [transcript |-> transcript_result.v["transcript_text"],
         speakers |-> transcript_result.v["speakers"],
         sentiment |-> GetOr(sentiment_analysis, "overall_sentiment", Label("NEUTRAL")),
         sentiment_analysis |-> JsonDumpsLoads(sentiment_analysis),
         summary |-> summary_text,
         insights |-> insights_text,
         processed_date |-> TimeStamp(time),
         customer_info |-> extract_customer_info(text),
         topics_discussed |-> extract_topics(text),
         speaker_ratios |->
             calculate_speaker_ratio(GetOr(transcript_result, "segments", List(<< >>)).v),
         action_items |-> parse_action_items(insights_text.v),
         duration |-> GetOr(transcript_result, "duration", IntNum(0)),
         filename |-> Str(clean_filename(LastPathPart(key)))]

----------------------------------------------------------------------------
(* process_audio_file: the code *)

\* What a step that stays inside process_audio_file leaves alone.
OnlyP == UNCHANGED <<tvars, svars, dvars, cvars, vvars, rvars>>

\* app.py:250-252 after a remote call of the stage raised with cause c:
\* wrappers is what the except clauses on the way add in front of str(e).
\* The message goes to st.error and None is returned.
Raised(stage, wrappers, c) ==
    /\ failure' = [stage |-> stage, cause |-> c]
    /\ shown_error' = <<"Error processing file: ">> \o wrappers \o <<c>>
    /\ returned' = NoneValue
    /\ ppc' = "returned"

\* The record is looked up and the run goes on whatever was found.
CheckExistingIgnored ==
    /\ ppc = "check"
    /\ ops' = Append(ops, "get_analysis")
    /\ last_get' = (IF p_key \in DOMAIN table THEN Dict(Fetched(table[p_key])) ELSE NoneValue)
    /\ ppc' = "submit"
    /\ get_key' = p_key
    /\ dpc' = "got"
    /\ UNCHANGED <<table, written, file_key, data_in, analysis_data, now>>
    /\ UNCHANGED <<p_key, job_status, polls, failure, shown_error, returned, speakers,
                   llm_sentiment, summary, insights>>
    /\ UNCHANGED <<tvars, svars, cvars, vvars, rvars>>
\* app.py:170-173 with dynamodb.py:115-167: the record is looked up; an
\* existing one is returned at once.
CheckExisting ==
    /\ ppc = "check"
    /\ ops' = Append(ops, "get_analysis")
    /\ LET existing_analysis ==
               IF p_key \in DOMAIN table THEN Dict(Fetched(table[p_key])) ELSE NoneValue
       IN  /\ last_get' = existing_analysis
           /\ IF ~Falsy(existing_analysis)
              THEN returned' = existing_analysis /\ ppc' = "returned"
              ELSE returned' = returned /\ ppc' = "submit"
    /\ get_key' = p_key
    /\ dpc' = "got"
    /\ UNCHANGED <<table, written, file_key, data_in, analysis_data, now>>
    /\ UNCHANGED <<p_key, job_status, polls, failure, shown_error, speakers, llm_sentiment,
                   summary, insights>>
    /\ UNCHANGED <<tvars, svars, cvars, vvars, rvars>>

\* app.py:170 with dynamodb.py:169-171: get_item raises.
CheckExistingFails ==
    /\ ppc = "check"
    /\ ops' = Append(ops, "get_analysis")
    /\ \E c \in Causes : Raised("persistence", <<"Error getting analysis: ">>, c)
    /\ get_key' = p_key
    /\ dpc' = "get_failed"
    /\ last_get' = NoneValue
    /\ UNCHANGED <<table, written, file_key, data_in, analysis_data, now>>
    /\ UNCHANGED <<p_key, job_status, polls, speakers, llm_sentiment, summary, insights>>
    /\ UNCHANGED <<tvars, svars, cvars, vvars, rvars>>

\* The statuses of a job that has not ended.
WaitingStatuses == {"QUEUED", "IN_PROGRESS"}

\* app.py:178 with transcription.py:13-31: the job is started.
StartTranscription ==
    /\ ppc = "submit"
    /\ ops' = Append(ops, "start_transcription")
    /\ job_status' \in WaitingStatuses
    /\ ppc' = "poll"
    /\ UNCHANGED <<p_key, polls, failure, shown_error, returned, speakers, llm_sentiment,
                   summary, insights>>
    /\ OnlyP

\* transcription.py:32-33: start_transcription_job raises.
StartTranscriptionFails ==
    /\ ppc = "submit"
    /\ ops' = Append(ops, "start_transcription")
    /\ \E c \in Causes : Raised("start", <<"Error starting transcription: ">>, c)
    /\ UNCHANGED <<p_key, job_status, polls, speakers, llm_sentiment, summary, insights>>
    /\ OnlyP

\* A wait loop with a timeout: the status read is not a final one and the
\* run gives up.
StatusInProgressTimesOut ==
    /\ ppc = "poll"
    /\ polls < MaxPolls
    /\ job_status \in WaitingStatuses
    /\ ops' = Append(ops, "get_transcription_status")
    /\ job_status' \in WaitingStatuses
    /\ job_status = "IN_PROGRESS" => job_status' = "IN_PROGRESS"
    /\ polls' = polls + 1
    /\ shown_error' = <<"Transcription timed out">>
    /\ returned' = NoneValue
    /\ ppc' = "returned"
    /\ UNCHANGED <<p_key, failure, speakers, llm_sentiment, summary, insights>>
    /\ OnlyP
\* The loop is left for every status but FAILED: the status read is not a
\* final one and the result is asked for all the same.
StatusInProgressLeavesLoop ==
    /\ ppc = "poll"
    /\ polls < MaxPolls
    /\ job_status \in WaitingStatuses
    /\ ops' = Append(ops, "get_transcription_status")
    /\ job_status' \in WaitingStatuses
    /\ job_status = "IN_PROGRESS" => job_status' = "IN_PROGRESS"
    /\ polls' = polls + 1
    /\ ppc' = "result"
    /\ tpc' = "start"
    /\ UNCHANGED <<p_key, failure, shown_error, returned, speakers, llm_sentiment,
                   summary, insights>>
    /\ UNCHANGED <<segments, items, speaker_map, idx, current_speaker, current_line,
                   transcript_text, duration, speakers_text>>
    /\ UNCHANGED <<svars, dvars, cvars, vvars, rvars>>
\* app.py:184-191: the status read is neither COMPLETED nor FAILED (the job
\* is queued or running); the loop sleeps and reads again.
StatusInProgress ==
    /\ ppc = "poll"
    /\ polls < MaxPolls
    /\ job_status \in WaitingStatuses
    /\ ops' = Append(ops, "get_transcription_status")
    /\ job_status' \in WaitingStatuses
    /\ job_status = "IN_PROGRESS" => job_status' = "IN_PROGRESS"
    /\ polls' = polls + 1
    /\ UNCHANGED <<ppc, p_key, failure, shown_error, returned, speakers,
                   llm_sentiment, summary, insights>>
    /\ OnlyP

\* app.py:185-187 and 195: the status read is COMPLETED; the loop ends and
\* get_transcription_result is called.
StatusCompleted ==
    /\ ppc = "poll"
    /\ ops' = Append(ops, "get_transcription_status")
    /\ job_status' = "COMPLETED"
    /\ ppc' = "result"
    /\ tpc' = "start"
    /\ UNCHANGED <<p_key, polls, failure, shown_error, returned, speakers, llm_sentiment,
                   summary, insights>>
    /\ UNCHANGED <<segments, items, speaker_map, idx, current_speaker, current_line,
                   transcript_text, duration, speakers_text>>
    /\ UNCHANGED <<svars, dvars, cvars, vvars, rvars>>

\* The status read is FAILED and the loop ends as it does for COMPLETED.
StatusFailedGoesOn ==
    /\ ppc = "poll"
    /\ ops' = Append(ops, "get_transcription_status")
    /\ job_status' = "FAILED"
    /\ ppc' = "result"
    /\ tpc' = "start"
    /\ UNCHANGED <<p_key, polls, failure, shown_error, returned, speakers, llm_sentiment,
                   summary, insights>>
    /\ UNCHANGED <<segments, items, speaker_map, idx, current_speaker, current_line,
                   transcript_text, duration, speakers_text>>
    /\ UNCHANGED <<svars, dvars, cvars, vvars, rvars>>
\* app.py:188-190: the status read is FAILED; "Transcription failed" is shown
\* and None returned.
StatusFailed ==
    /\ ppc = "poll"
    /\ ops' = Append(ops, "get_transcription_status")
    /\ job_status' = "FAILED"
    /\ shown_error' = <<"Transcription failed">>
    /\ returned' = NoneValue
    /\ ppc' = "returned"
    /\ UNCHANGED <<p_key, polls, failure, speakers, llm_sentiment, summary, insights>>
    /\ OnlyP

\* transcription.py:42-43: get_transcription_job raises in the wait loop.
StatusFails ==
    /\ ppc = "poll"
    /\ ops' = Append(ops, "get_transcription_status")
    /\ \E c \in Causes : Raised("status", <<"Error getting transcription status: ">>, c)
    /\ UNCHANGED <<p_key, job_status, polls, speakers, llm_sentiment, summary, insights>>
    /\ OnlyP

\* transcription.py:164-193 inside the pipeline: the result of the completed
\* job is fetched and the locals are initialised.
FetchJobResult ==
    /\ ppc = "result"
    /\ tpc = "start"
    /\ ops' = Append(ops, "get_transcription_result")
    /\ \E its \in SeqsUpTo(PipelineItems, MaxPipelineItems), segs \in PipelineSegmentLists :
          /\ items' = its
          /\ segments' = segs
          /\ speaker_map' = BuildSpeakerMap(Empty, segs)
    /\ transcript_text' = << >>
    /\ duration' = 0
    /\ speakers_text' = [s \in {SPK0, SPK1} |-> << >>]
    /\ current_speaker' = None
    /\ current_line' = << >>
    /\ idx' = 0
    /\ tpc' = "loop"
    /\ UNCHANGED <<ppc, p_key, job_status, polls, failure, shown_error, returned, speakers,
                   llm_sentiment, summary, insights>>
    /\ UNCHANGED <<svars, dvars, cvars, vvars, rvars>>

\* transcription.py:165-174 and 247-248: get_transcription_job or the
\* download raises.
FetchJobResultFails ==
    /\ ppc = "result"
    /\ tpc = "start"
    /\ ops' = Append(ops, "get_transcription_result")
    /\ \E c \in Causes : Raised("fetch", <<"Error getting transcription result: ">>, c)
    /\ tpc' = "raised"
    /\ UNCHANGED <<p_key, job_status, polls, speakers, llm_sentiment, summary, insights>>
    /\ UNCHANGED <<segments, items, speaker_map, idx, current_speaker, current_line,
                   transcript_text, duration, speakers_text>>
    /\ UNCHANGED <<svars, dvars, cvars, vvars, rvars>>

\* transcription.py:225 and 57-58: analyze_sentiment is called with the
\* speakers_text just built.
CallAnalyzeSentiment ==
    /\ ppc = "result"
    /\ tpc = "done"
    /\ spc = "idle"
    /\ in_speakers_text' = speakers_text
    /\ sentiment_results' = Empty
    /\ all_sentiments' = << >>
    /\ spk_i' = 0
    /\ spc' = "speaker"
    /\ UNCHANGED <<chunks, chunk_i, speaker_sentiments, overall_sentiment, calls>>
    /\ UNCHANGED <<tvars, dvars, cvars, vvars, rvars, pvars>>

\* The exception of the classifier call is swallowed and
\* get_transcription_result goes on with what was collected.
ClassifierFailureIgnored ==
    /\ ppc = "result"
    /\ spc = "raised"
    /\ ops' = Append(ops, "analyze_call_sentiment")
    /\ llm_sentiment' = NoneValue
    /\ ppc' = "summary"
    /\ UNCHANGED <<p_key, job_status, polls, failure, shown_error, returned, speakers,
                   summary, insights>>
    /\ OnlyP
\* transcription.py:120-121, 247-248 and app.py:250-252: the exception of
\* the classifier call goes up through analyze_sentiment and
\* get_transcription_result to process_audio_file.
ClassifierFailureReturns ==
    /\ ppc = "result"
    /\ spc = "raised"
    /\ \E c \in Causes :
          Raised("classification",
                 <<"Error getting transcription result: ", "Error analyzing sentiment: ">>, c)
    /\ tpc' = "raised"
    /\ UNCHANGED <<p_key, job_status, polls, ops, speakers, llm_sentiment, summary, insights>>
    /\ UNCHANGED <<segments, items, speaker_map, idx, current_speaker, current_line,
                   transcript_text, duration, speakers_text>>
    /\ UNCHANGED <<svars, dvars, cvars, vvars, rvars>>

\* transcription.py:229-243 with bedrock.py:74-114: the tone report of the
\* model is asked for (None when that call fails) and
\* get_transcription_result returns.
AnalyzeCallSentiment ==
    /\ ppc = "result"
    /\ spc = "done"
    /\ ops' = Append(ops, "analyze_call_sentiment")
    /\ llm_sentiment' \in {LlmReport, NoneValue}
    /\ speakers' \in OrdersOf({speaker_map[t] : t \in DOMAIN speaker_map})
    /\ ppc' = "summary"
    /\ UNCHANGED <<p_key, job_status, polls, failure, shown_error, returned, summary,
                   insights>>
    /\ OnlyP

\* generate_summary raises as extract_insights does instead of returning
\* its fixed text.
GenerateSummaryRaises ==
    /\ ppc = "summary"
    /\ ops' = Append(ops, "generate_summary")
    /\ \/ /\ summary' = Str(SummaryText)
          /\ ppc' = "insights"
          /\ UNCHANGED <<failure, shown_error, returned>>
       \/ /\ \E c \in Causes : Raised("summary", <<"Error generating summary: ">>, c)
          /\ summary' = summary
    /\ UNCHANGED <<p_key, job_status, polls, speakers, llm_sentiment, insights>>
    /\ OnlyP
\* Lines 205 and 209 of app.py swapped: the insights are asked for before
\* the summary.
SummaryAfterInsights ==
    /\ ppc = "summary"
    /\ ops' = ops \o <<"extract_insights", "generate_summary">>
    /\ summary' \in {Str(SummaryText), Str(SummaryFailed)}
    /\ insights' = Str(InsightsText)
    /\ ppc' = "store"
    /\ UNCHANGED <<p_key, job_status, polls, failure, shown_error, returned, speakers,
                   llm_sentiment>>
    /\ OnlyP
\* app.py:205 with bedrock.py:8-40: the summary, or the text generate_summary
\* returns when its call fails.
GenerateSummary ==
    /\ ppc = "summary"
    /\ ops' = Append(ops, "generate_summary")
    /\ summary' \in {Str(SummaryText), Str(SummaryFailed)}
    /\ ppc' = "insights"
    /\ UNCHANGED <<p_key, job_status, polls, failure, shown_error, returned, speakers,
                   llm_sentiment, insights>>
    /\ OnlyP

\* app.py:209 with bedrock.py:42-69.
ExtractInsights ==
    /\ ppc = "insights"
    /\ ops' = Append(ops, "extract_insights")
    /\ insights' = Str(InsightsText)
    /\ ppc' = "store"
    /\ UNCHANGED <<p_key, job_status, polls, failure, shown_error, returned, speakers,
                   llm_sentiment, summary>>
    /\ OnlyP

\* bedrock.py:71-72: extract_insights raises.
ExtractInsightsFails ==
    /\ ppc = "insights"
    /\ ops' = Append(ops, "extract_insights")
    /\ \E c \in Causes : Raised("insights", <<"Error extracting insights: ">>, c)
    /\ UNCHANGED <<p_key, job_status, polls, speakers, llm_sentiment, summary, insights>>
    /\ OnlyP

\* app.py:212-248 with dynamodb.py:55-109: the record is assembled and
\* stored, and the caller's dict, as store_analysis left it, is returned.
StoreRecord ==
    /\ ppc = "store"
    /\ ops' = Append(ops, "store_analysis")
    /\ LET d == AssembledRecord(p_key, TranscriptResult, summary, insights, now)
           prepared == Prepared(d)
       IN  /\ data_in' = d
           /\ analysis_data' = prepared
           /\ LET item == ItemOf(p_key, now + 1, Converted(prepared))
              IN  /\ table' = PutItem(table, p_key, item)
                  /\ written' = Append(written, [key |-> p_key, item |-> item])
           /\ returned' = Dict(prepared)
    /\ file_key' = p_key
    /\ now' = now + 2
    /\ dpc' = "stored"
    /\ get_key' = << >>
    /\ last_get' = NoneValue
    /\ ppc' = "returned"
    /\ UNCHANGED <<p_key, job_status, polls, failure, shown_error, speakers, llm_sentiment,
                   summary, insights>>
    /\ UNCHANGED <<tvars, svars, cvars, vvars, rvars>>

\* dynamodb.py:106 and 111-113: put_item raises.
StoreRecordFails ==
    /\ ppc = "store"
    /\ ops' = Append(ops, "store_analysis")
    /\ LET d == AssembledRecord(p_key, TranscriptResult, summary, insights, now)
       IN  /\ data_in' = d
           /\ analysis_data' = Prepared(d)
    /\ \E c \in Causes : Raised("persistence", <<"Error storing analysis: ">>, c)
    /\ file_key' = p_key
    /\ now' = now + 2
    /\ dpc' = "store_failed"
    /\ get_key' = << >>
    /\ last_get' = NoneValue
    /\ UNCHANGED <<table, written>>
    /\ UNCHANGED <<p_key, job_status, polls, speakers, llm_sentiment, summary, insights>>
    /\ UNCHANGED <<tvars, svars, cvars, vvars, rvars>>

\* process_audio_file(file_key) is called; the table holds the record an
\* earlier run stored under the key "a".
PInit ==
    /\ ppc = "check"
    /\ p_key \in FileKeys
    /\ job_status = "NONE"
    /\ polls = 0
    /\ ops = << >>
    /\ failure = NoFailure
    /\ shown_error = << >>
    /\ returned = NoneValue
    /\ speakers = << >>
    /\ llm_sentiment = NoneValue
    /\ summary = NoneValue
    /\ insights = NoneValue

DInitPipeline ==
    /\ dpc = "idle"
    /\ table = InitialTable
    /\ written = <<[key |-> <<"a">>, item |-> EarlierItem]>>
    /\ file_key = << >>
    /\ get_key = << >>
    /\ data_in = Empty
    /\ analysis_data = Empty
    /\ last_get = NoneValue
    /\ now = 1

PipelineInit ==
    TInitIdle /\ SInitIdle /\ DInitPipeline /\ CInitIdle /\ PInit /\ VInitIdle /\ RInitIdle
PipelineNext ==
    \/ CheckExisting
    \/ CheckExistingFails
    \/ StartTranscription
    \/ StartTranscriptionFails
    \/ StatusInProgress
    \/ StatusCompleted
    \/ StatusFailed
    \/ StatusFails
    \/ FetchJobResult
    \/ FetchJobResultFails
    \/ ProcessItem
    \/ FlushLast
    \/ CallAnalyzeSentiment
    \/ NextSpeaker
    \/ ClassifyChunk
    \/ SkipChunk
    \/ ClassifyFails
    \/ SummarizeSpeaker
    \/ ReturnAnalysis
    \/ ClassifierFailureReturns
    \/ AnalyzeCallSentiment
    \/ GenerateSummary
    \/ ExtractInsights
    \/ ExtractInsightsFails
    \/ StoreRecord
    \/ StoreRecordFails
SpecPipeline == PipelineInit /\ [][PipelineNext]_vars

\* app.py:166 once more: after a run has returned, process_audio_file is
\* called again for a key that has a record; the locals of the earlier run
\* are gone, the table is as that run left it.
RunAgain ==
    /\ ppc = "returned"
    /\ p_key' \in DOMAIN table
    /\ ppc' = "check"
    /\ job_status' = "NONE"
    /\ polls' = 0
    /\ ops' = << >>
    /\ failure' = NoFailure
    /\ shown_error' = << >>
    /\ returned' = NoneValue
    /\ speakers' = << >>
    /\ llm_sentiment' = NoneValue
    /\ summary' = NoneValue
    /\ insights' = NoneValue
    /\ tpc' = "idle"
    /\ segments' = << >>
    /\ items' = << >>
    /\ speaker_map' = Empty
    /\ idx' = 0
    /\ current_speaker' = None
    /\ current_line' = << >>
    /\ transcript_text' = << >>
    /\ duration' = 0
    /\ speakers_text' = [s \in {SPK0, SPK1} |-> << >>]
    /\ spc' = "idle"
    /\ in_speakers_text' = [s \in {SPK0, SPK1} |-> << >>]
    /\ spk_i' = 0
    /\ chunks' = << >>
    /\ chunk_i' = 0
    /\ speaker_sentiments' = << >>
    /\ all_sentiments' = << >>
    /\ sentiment_results' = Empty
    /\ overall_sentiment' = "NEUTRAL"
    /\ calls' = << >>
    /\ UNCHANGED <<dvars, cvars, vvars, rvars>>

\* Runs of process_audio_file one after the other.
SpecRerun == PipelineInit /\ [][PipelineNext \/ RunAgain]_vars

\* The steps of a run that has not reached the store call.
BeforeStore == ppc # "store" /\ PipelineNext

\* The run is one thread of blocking calls: as long as a step is possible
\* (every remote call returns or raises, and the job reports a final status
\* after at most MaxPolls other ones) a step is taken. The store call is
\* possible whenever the run is at it, so weak fairness of that step says
\* that the run does not stay at it for ever.
SpecPipelineFair ==
    /\ SpecPipeline
    /\ WF_vars(BeforeStore)
    /\ []<>(ppc # "store")

----------------------------------------------------------------------------
(* process_audio_file: claims *)

\* The run stored its record and returned it.
RunStored == ppc = "returned" /\ dpc = "stored"

\* The item holds under its keys what the run produced, apart from the
\* per-speaker text streams: transcript, sentiment analysis, summary,
\* insights, customer info, topics, duration and filename.
CarriesAllButSpeakersText(item) ==
    /\ {"transcript", "sentiment_analysis", "summary", "insights", "customer_info",
        "topics_discussed", "duration", "filename"} \subseteq DOMAIN item
    /\ item["transcript"] = Str(transcript_text)
    /\ item["sentiment_analysis"].v["comprehend_analysis"] = ComprehendResult
    /\ item["sentiment_analysis"].v["llm_analysis"] = llm_sentiment
    /\ item["summary"] = summary
    /\ item["insights"] = insights
    /\ item["customer_info"] = extract_customer_info(transcript_text)
    /\ item["topics_discussed"] = extract_topics(transcript_text)
    /\ item["duration"].v = duration
    /\ item["filename"] = Str(clean_filename(LastPathPart(p_key)))

\* C11: the record persisted by a successful run carries, unchanged, the
\* transcript text and the speakers_text that get_transcription_result
\* produced in that run, together with the sentiment analysis, summary,
\* insights, customer info, topics, duration and filename.
C11_RecordCarriesResult ==
    RunStored =>
        LET item == table[p_key]
        IN  /\ CarriesAllButSpeakersText(item)
            /\ "speakers_text" \in DOMAIN item
            /\ item["speakers_text"] =
                   Dict([s \in DOMAIN speakers_text |-> Str(speakers_text[s])])

\* The part of C11 the code keeps: everything but speakers_text is carried.
C11_RestIsCarried == RunStored => CarriesAllButSpeakersText(table[p_key])

----------------------------------------------------------------------------
(* analyze_sentiment: the tone fields *)

\* The template the role, the dominant sentiment and the keyword match
\* select for a speaker of the result.
TemplateFor(s) ==
    IF s = SPK1
    THEN AnalyzeCustomerTone(in_speakers_text[s], sentiment_results[s].dominant_sentiment)
    ELSE AnalyzeEmployeeTone(sentiment_results[s].dominant_sentiment)

\* C12: for every speaker in per_speaker, tone_summary is the template
\* string selected by the speaker's role, its dominant sentiment and, for the
\* customer (spk_1), the keyword match on its raw text.
C12_ToneSummaryIsTemplate ==
    spc = "done" =>
        \A s \in DOMAIN sentiment_results :
            sentiment_results[s].tone_summary = TemplateFor(s)

\* What the code does instead: the template is in tone_description and
\* tone_summary repeats the dominant sentiment.
C12_TemplateIsInDescription ==
    spc = "done" =>
        \A s \in DOMAIN sentiment_results :
            /\ sentiment_results[s].tone_description = TemplateFor(s)
            /\ sentiment_results[s].tone_summary = sentiment_results[s].dominant_sentiment

\* The remote calls of the log.
OpsMade == {ops[i] : i \in 1..Len(ops)}

\* C13: when the job reports FAILED the run aborts: it returns None and has
\* made no result fetch, no classifier call, no summary or insight call and
\* no store_analysis call, and the table, which held no record for the key,
\* holds none afterwards.
C13_FailedJobAborts ==
    job_status = "FAILED" =>
        /\ ppc = "returned"
        /\ returned = NoneValue
        /\ OpsMade \cap {"get_transcription_result", "analyze_call_sentiment",
                         "generate_summary", "extract_insights", "store_analysis"} = {}
        /\ calls = << >>
        /\ table = InitialTable
        /\ p_key \notin DOMAIN table

\* The job failed after the wait loop had slept.
C13_Witness == job_status = "FAILED" /\ ppc = "returned" /\ polls > 0

\* C14: when a classifier call fails, analyze_sentiment raises: that call is
\* not made again and no other classifier call follows (for the rest of the
\* speaker's chunks or for later speakers), get_transcription_result does
\* not return a result, the run returns None and stores no record.
C14_ClassifierFailureAborts ==
    /\ [](spc = "raised" =>
            /\ Len(calls) = Len(all_sentiments) + 1
            /\ OpsMade \cap {"analyze_call_sentiment", "generate_summary",
                             "extract_insights", "store_analysis"} = {}
            /\ table = InitialTable
            /\ ppc = "returned" => returned = NoneValue)
    /\ [][spc = "raised" => (calls' = calls /\ table' = table)]_vars

\* The failing call was for a chunk of spk_0 that further chunks to classify
\* follow, and the run has returned.
C14_Witness ==
    /\ spc = "raised"
    /\ ppc = "returned"
    /\ spk_i = 0
    /\ \E j \in (chunk_i + 2)..Len(chunks) : Submits(chunks[j])

\* The failing call was for spk_0 and spk_1 has text to classify.
C14_WitnessLaterSpeaker ==
    /\ spc = "raised"
    /\ ppc = "returned"
    /\ spk_i = 0
    /\ Strip(in_speakers_text[SPK1]) # << >>

----------------------------------------------------------------------------
(* DynamoDBService: round trip, repeated and successive stores *)

\* The last store_analysis call succeeded and was for the key that the last
\* call, a get_analysis, read: the item under the key carries the time of
\* that store.
GotWhatWasStored ==
    /\ dpc = "got"
    /\ get_key = file_key
    /\ file_key \in DOMAIN table
    /\ "timestamp" \in DOMAIN table[file_key]
    /\ table[file_key]["timestamp"] = TimeStamp(now - 1)
    /\ last_get # NoneValue

\* C15: get_analysis(k) after a successful store_analysis(k, r) returns a
\* value equal to r in every field of r: same keys, same text, integers
\* still integers, floats equal, transcript text identical.
C15_RoundTrip ==
    GotWhatWasStored =>
        \A k \in DOMAIN data_in :
            /\ k \in DOMAIN last_get.v
            /\ last_get.v[k] = data_in[k]

\* What does come back unchanged: texts other than the transcript, and
\* top-level floats.
C15_TextsAndFloatsComeBack ==
    GotWhatWasStored =>
        \A k \in DOMAIN data_in :
            /\ k \in DOMAIN last_get.v
            /\ (k \in {"speakers_text", "sentiment", "duration"} /\ ~Falsy(data_in[k])) =>
                  last_get.v[k] = data_in[k]

\* The fields of an item that hold a time.
TimestampFields == {"timestamp", "processed_date"}

\* C16: storing the same data twice under the same key writes two items
\* that are equal in every field except the timestamp fields, also when the
\* second call is given the dict the first call changed in place.
C16_StoringTwiceWritesSame ==
    dpc = "stored_again" =>
        LET first == written[Len(written) - 1]
            second == written[Len(written)]
        IN  /\ first.key = second.key
            /\ DOMAIN first.item = DOMAIN second.item
            /\ \A k \in DOMAIN first.item \ TimestampFields :
                  first.item[k] = second.item[k]

\* The data was stored twice and the first call had changed the caller's dict.
C16_Witness == dpc = "stored_again" /\ analysis_data # data_in

\* The positions of the writes for a key in the log.
WritesFor(k) == {i \in 1..Len(written) : written[i].key = k}

\* C17: the record held for a key is exactly the item of the most recent
\* successful write for that key (no field of an earlier item survives),
\* and a key that was never written holds no record; so a write leaves the
\* records of the other keys as they were.
C17_LastWriteWins ==
    \A k \in FileKeys :
        IF WritesFor(k) = {} THEN k \notin DOMAIN table
        ELSE /\ k \in DOMAIN table
             /\ LET last == CHOOSE i \in WritesFor(k) : \A j \in WritesFor(k) : j <= i
                IN  table[k] = written[last].item

\* A key was written twice, the earlier item having a field the later one
\* lacks, while the other key holds a record too.
C17_Witness ==
    /\ DOMAIN table = FileKeys
    /\ \E i, j \in 1..Len(written) :
          /\ i < j
          /\ written[i].key = written[j].key
          /\ DOMAIN written[i].item \ DOMAIN written[j].item # {}

\* The text is part of the message.
Mentions(message, text) ==
    \E i \in 1..Len(message) :
        /\ i + Len(text) - 1 <= Len(message)
        /\ SubSeq(message, i, i + Len(text) - 1) = text

\* What the services put in front of the cause in each required stage.
StageTexts ==
    [start          |-> {"Error starting transcription: "},
     status         |-> {"Error getting transcription status: "},
     fetch          |-> {"Error getting transcription result: "},
     classification |-> {"Error analyzing sentiment: "},
     persistence    |-> {"Error getting analysis: ", "Error storing analysis: "}]

\* A run ended by a failed remote call of a required stage.
RequiredStageFailed ==
    ppc = "returned" /\ failure.stage \in DOMAIN StageTexts

\* C18: when a remote call of a required stage fails, the caller of
\* process_audio_file gets an error (not an ordinary return value) that
\* carries the cause and names the failing stage and the file identifier.
C18_FailureSurfacedWithContext ==
    RequiredStageFailed =>
        /\ returned # NoneValue
        /\ Mentions(shown_error, <<failure.cause>>)
        /\ \E text \in StageTexts[failure.stage] : Mentions(shown_error, <<text>>)
        /\ Mentions(shown_error, p_key)

\* C18, the part the code keeps: the message handed to st.error holds the
\* cause behind the text of the stage that failed.
C18_CauseAndStageShown ==
    RequiredStageFailed =>
        /\ Mentions(shown_error, <<failure.cause>>)
        /\ \E text \in StageTexts[failure.stage] : Mentions(shown_error, <<text>>)

\* The speaker of the word items[i], as line 197 looks it up.
SpeakerOfWord(i) == MapGet(speaker_map, items[i].start_time)

\* The loop is about to process a word of a speaker that is neither spk_0
\* nor spk_1 (another label, or no entry in speaker_map).
AtWordOfOtherSpeaker ==
    /\ tpc = "loop"
    /\ idx < Len(items)
    /\ items[idx + 1].type = "pronunciation"
    /\ SpeakerOfWord(idx + 1) \notin {SPK0, SPK1}

\* C19: speakers_text has exactly the keys spk_0 and spk_1 at every point of
\* get_transcription_result and in its result, and processing a word of any
\* other or of an unmapped speaker changes neither entry.
C19_ExactlyTwoSpeakerKeys ==
    /\ [](DOMAIN speakers_text = {SPK0, SPK1})
    /\ [][AtWordOfOtherSpeaker => speakers_text' = speakers_text]_vars

\* A finished run that had a word of spk_2 and a word of spk_0 or spk_1,
\* the latter with text in its entry.
C19_Witness ==
    /\ tpc = "done"
    /\ \E i, k \in 1..Len(items) :
          /\ items[i].type = "pronunciation" /\ SpeakerOfWord(i) = SPK2
          /\ items[k].type = "pronunciation" /\ SpeakerOfWord(k) \in {SPK0, SPK1}
          /\ speakers_text[SpeakerOfWord(k)] # << >>

\* A finished run that had a word without an entry in speaker_map, a
\* punctuation item right after it, and a word of spk_0 or spk_1.
C19_WitnessUnmapped ==
    /\ tpc = "done"
    /\ \E i, k \in 1..Len(items) :
          /\ items[i].type = "pronunciation" /\ SpeakerOfWord(i) = None
          /\ i < Len(items) /\ items[i + 1].type = "punctuation"
          /\ items[k].type = "pronunciation" /\ SpeakerOfWord(k) \in {SPK0, SPK1}

\* The positions of the word items, in input order.
WordPositions == {i \in 1..Len(items) : items[i].type = "pronunciation"}

\* The word at position i has a word before it and another speaker than
\* the last word before it.
IsSpeakerChange(i) ==
    /\ i \in WordPositions
    /\ \E j \in WordPositions :
          /\ j < i
          /\ \A k \in WordPositions : ~(j < k /\ k < i)
          /\ SpeakerOfWord(j) # SpeakerOfWord(i)

\* Speaker changes among the words up to position i.
ChangesUpTo(i) == Cardinality({j \in 1..i : IsSpeakerChange(j)})

\* The contents of the items of the n-th run of words of one speaker, each
\* punctuation item going with the word before it (with the first word when
\* there is none before it).
RECURSIVE ContentsOfRun(_, _)
ContentsOfRun(n, i) ==
    IF i > Len(items) THEN << >>
    ELSE (IF ChangesUpTo(i) + 1 = n THEN items[i].content ELSE << >>)
         \o ContentsOfRun(n, i + 1)

\* The speaker label a transcript line starts with ("" when it has none).
LineLabel(line) ==
    LET ls == {l \in SegmentLabels \cup {None} : StartsWith(line, LabelText(l) \o <<":", " ">>)}
    IN  IF ls = {} THEN "" ELSE CHOOSE l \in ls : TRUE

\* Line n holds the words of the n-th run, for every line of the transcript;
\* there is one line more than there are speaker changes; and no two
\* adjacent lines have the same label.
LinesAreRuns ==
    LET lines == LinesOf(transcript_text, << >>)
    IN  /\ Len(lines) = ChangesUpTo(Len(items)) + 1
        /\ \A n \in 1..Len(lines) :
              Without(StripLabel(lines[n]), " ") = ContentsOfRun(n, 1)
        /\ \A n \in 1..(Len(lines) - 1) : LineLabel(lines[n]) # LineLabel(lines[n + 1])

\* C20: for a stream with at least one word, the words of a run of one
\* speaker are in one line, a word of another speaker than the word before
\* starts a new line, no two adjacent lines have the same speaker label, and
\* there are as many lines as speaker changes plus one.
C20_LinesFollowSpeakerChanges ==
    (tpc = "done" /\ WordPositions # {}) => LinesAreRuns

\* C20, where the code keeps it: the stream starts with a word.
C20_LinesFollowChangesAfterFirstWord ==
    (tpc = "done" /\ items # << >> /\ items[1].type = "pronunciation") => LinesAreRuns

\* A finished run that starts with a word and has two words of one speaker
\* in a row and a speaker change.
C20_WitnessFirstWord ==
    /\ tpc = "done"
    /\ Len(items) = 3
    /\ WordPositions = {1, 2, 3}
    /\ ChangesUpTo(3) = 1

\* The speaker labels of the diarization segments.
LabelsOfSegments == {segments[i].speaker_label : i \in 1..Len(segments)}

\* Every line of the transcript starts with "<label>: " for a label of the
\* segments.
EveryLineLabelled ==
    LET lines == LinesOf(transcript_text, << >>)
    IN  \A n \in 1..Len(lines) : LineLabel(lines[n]) \in LabelsOfSegments

\* C21: every line of the finished transcript starts with the prefix of a
\* speaker label of the diarization segments; punctuation before the first
\* word gives no line of its own and no text without label.
C21_EveryLineHasSegmentLabel ==
    tpc = "done" => EveryLineLabelled

\* C21, where the code keeps it: the stream starts with a word and every
\* word has an entry in speaker_map.
C21_LabelledWhenWordsAreMapped ==
    (/\ tpc = "done"
     /\ items # << >> /\ items[1].type = "pronunciation"
     /\ \A i \in WordPositions : SpeakerOfWord(i) # None) => EveryLineLabelled

\* The loop is about to process a word whose start time has no entry in
\* speaker_map.
AtUnmappedWord ==
    /\ tpc = "loop"
    /\ idx < Len(items)
    /\ items[idx + 1].type = "pronunciation"
    /\ SpeakerOfWord(idx + 1) = None

\* The step flushes the current line and starts a new line, with prefix,
\* for the word it processes.
StartsNewLine ==
    /\ transcript_text' = Flush(transcript_text, current_line)
    /\ current_line' = NewLine(MapGet(speaker_map, items[idx + 1].start_time),
                               items[idx + 1].content)

\* C22: a word without entry in speaker_map is a speaker change wherever it
\* stands: the non-empty current line is flushed and a new prefixed line is
\* started for the word.
C22_UnmappedWordStartsLine ==
    [][AtUnmappedWord => StartsNewLine]_vars

\* C22, where the code keeps it: the word before the unmapped word had a
\* speaker.
C22_UnmappedAfterMappedStartsLine ==
    [][(AtUnmappedWord /\ current_speaker # None) => StartsNewLine]_vars

\* The place of each remote operation in the order of process_audio_file.
OpRank ==
    [get_analysis             |-> 1,
     start_transcription      |-> 2,
     get_transcription_status |-> 3,
     get_transcription_result |-> 4,
     analyze_call_sentiment   |-> 5,
     generate_summary         |-> 6,
     extract_insights         |-> 7,
     store_analysis           |-> 8]

\* The log starts with the existence check and goes through the stages one
\* by one, only the status poll being repeated.
OpsInOrder ==
    /\ ops # << >> => ops[1] = "get_analysis"
    /\ \A i \in 1..(Len(ops) - 1) :
          \/ OpRank[ops[i + 1]] = OpRank[ops[i]] + 1
          \/ ops[i] = "get_transcription_status" /\ ops[i + 1] = "get_transcription_status"

\* The place of a speaker in the order analyze_sentiment goes through.
SpeakerIndex(s) == CHOOSE i \in 1..Len(SpeakerOrder) : SpeakerOrder[i] = s

\* The step makes one classifier call: for the chunk the inner loop is at,
\* after the result was fetched and before any later stage, and for no
\* speaker before the speaker of the last call.
OneClassifierCall ==
    /\ calls' = Append(calls, <<Speaker, chunks[chunk_i + 1]>>)
    /\ ops' = ops
    /\ ops # << >> /\ ops[Len(ops)] = "get_transcription_result"
    /\ calls # << >> => SpeakerIndex(calls[Len(calls)][1]) <= SpeakerIndex(Speaker)

\* The step calls store_analysis: every earlier stage is in the log, none
\* has failed, and the transcript and the classification are finished.
StoreAfterAllStages ==
    /\ \A o \in DOMAIN OpRank \ {"store_analysis"} : \E i \in 1..Len(ops) : ops[i] = o
    /\ \A i \in 1..Len(ops) : ops[i] # "store_analysis"
    /\ failure = NoFailure
    /\ tpc = "done" /\ spc = "done"

\* C23: the remote operations of a run occur in the order existence check,
\* job submission, status polls, result fetch, classifier calls (one at a
\* time, chunk by chunk, speaker by speaker), summary, insights, store;
\* store_analysis is called at most once and only after every earlier stage
\* has returned.
C23_RemoteCallsInOrder ==
    /\ []OpsInOrder
    /\ [][calls' # calls => OneClassifierCall]_vars
    /\ [][(ops' # ops /\ ops'[Len(ops')] = "store_analysis") => StoreAfterAllStages]_vars

\* A run that polled more than once, classified for both speakers and
\* stored its record.
C23_Witness ==
    /\ ppc = "returned"
    /\ ops[Len(ops)] = "store_analysis"
    /\ polls >= 1
    /\ \E i, j \in 1..Len(calls) : calls[i][1] = SPK0 /\ calls[j][1] = SPK1
    /\ p_key \in DOMAIN table

\* The statuses that end the wait loop.
TerminalStatuses == {"COMPLETED", "FAILED"}

\* The step leaves the wait loop.
LeavesPollLoop == ppc = "poll" /\ ppc' # "poll"

\* The step reads a status in the wait loop that is not a final one.
PollsOtherStatus ==
    /\ ppc = "poll"
    /\ ops' = Append(ops, "get_transcription_status")
    /\ failure' = NoFailure
    /\ job_status' \notin TerminalStatuses

\* C24: the wait loop is left only by a status read that gave COMPLETED or
\* FAILED or that raised; any other status keeps the run in the loop; and
\* the result is asked for only right after a status read of COMPLETED.
C24_PollUntilTerminal ==
    /\ [][LeavesPollLoop =>
            /\ ops' = Append(ops, "get_transcription_status")
            /\ \/ job_status' \in TerminalStatuses
               \/ failure'.stage = "status"]_vars
    /\ [][PollsOtherStatus => ppc' = "poll"]_vars
    /\ [](\A i \in 1..Len(ops) :
            ops[i] = "get_transcription_result" =>
                /\ job_status = "COMPLETED"
                /\ i > 1 /\ ops[i - 1] = "get_transcription_status")

\* The result was asked for after the loop had read a status that was not
\* final and slept.
C24_Witness ==
    /\ polls >= 1
    /\ \E i \in 1..Len(ops) : ops[i] = "get_transcription_result"

\* The run has ended with one record written for its key and returned, or
\* without any write, returning None or the record it found.
EndedStoredOrUntouched ==
    \/ /\ returned # NoneValue
       /\ Len(written) = 2
       /\ written[2].key = p_key
       /\ table = PutItem(InitialTable, p_key, written[2].item)
    \/ /\ written = <<[key |-> <<"a">>, item |-> EarlierItem]>>
       /\ table = InitialTable
       /\ \/ returned = NoneValue
          \/ /\ p_key \in DOMAIN InitialTable
             /\ returned = Dict(Fetched(InitialTable[p_key]))

\* The step ends a run that had started a job.
EndsRunWithJob ==
    /\ ppc # "returned" /\ ppc' = "returned"
    /\ \E i \in 1..Len(ops) : ops[i] = "start_transcription"

\* C25: when the job reports a final status after finitely many polls and
\* every remote call returns, the run terminates, with one record written
\* or with no write at all; and a run that waits for a job ends only after
\* a final status was read or a call raised (there is no timeout).
C25_TerminatesOnlyOnTerminalStatus ==
    /\ <>(ppc = "returned")
    /\ [](ppc = "returned" => EndedStoredOrUntouched)
    /\ [][EndsRunWithJob =>
            \/ job_status' \in TerminalStatuses
            \/ failure' # NoFailure]_vars

\* A run that waited, got COMPLETED and ended with its record stored.
C25_Witness ==
    /\ ppc = "returned"
    /\ polls >= 1
    /\ job_status = "COMPLETED"
    /\ Len(written) = 2

\* A run that waited and ended on FAILED with no write.
C25_WitnessFailed ==
    /\ ppc = "returned"
    /\ polls >= 1
    /\ job_status = "FAILED"
    /\ table = InitialTable

\* The run is at its existence check and the table has a record for its key.
AtCheckWithRecord == ppc = "check" /\ p_key \in DOMAIN table

\* C27: a run that finds a record for its key returns that record after the
\* one lookup: no job is started, no classifier, summary or insight call is
\* made and nothing is written, so the table stays as it is however often
\* the run is repeated.
C27_ExistingRecordIsReturned ==
    /\ [][AtCheckWithRecord =>
            /\ ppc' = "returned"
            /\ ops' = <<"get_analysis">>
            /\ calls' = << >>
            /\ \/ returned' = Dict(Fetched(table[p_key]))
               \/ failure'.stage = "persistence"
            /\ table' = table /\ written' = written]_vars
    /\ [][(ppc = "returned" /\ ops = <<"get_analysis">>) =>
            (table' = table /\ written' = written)]_vars
    /\ [](AtCheckWithRecord => (ops = << >> /\ calls = << >>))

\* A second run for the key whose record the first run stored has returned
\* that record.
C27_Witness ==
    /\ ppc = "returned"
    /\ ops = <<"get_analysis">>
    /\ Len(written) = 2
    /\ p_key = written[2].key
    /\ returned = Dict(Fetched(written[2].item))

\* C28: the summary call never ends the run, and when it failed the record
\* stored has the fixed text of generate_summary as its summary; a failed
\* insights call ends the run with None and nothing written; the LLM
\* sentiment call never ends the run, and when it failed llm_analysis is
\* null in the record stored.
C28_OptionalStagesDegrade ==
    /\ [][ppc = "summary" => ppc' = "insights"]_vars
    /\ [][(ppc = "result" /\ spc = "done") => ppc' = "summary"]_vars
    /\ [](RunStored =>
            /\ table[p_key]["summary"] = summary
            /\ summary \in {Str(SummaryText), Str(SummaryFailed)}
            /\ table[p_key]["sentiment_analysis"].v["llm_analysis"] = llm_sentiment)
    /\ [](failure.stage = "insights" =>
            /\ ppc = "returned"
            /\ returned = NoneValue
            /\ table = InitialTable
            /\ ops[Len(ops)] = "extract_insights")

\* A run whose summary call and LLM sentiment call failed has stored its
\* record.
C28_Witness ==
    /\ RunStored
    /\ summary = Str(SummaryFailed)
    /\ llm_sentiment = NoneValue
    /\ table[p_key]["summary"] = Str(SummaryFailed)

\* A run ended by the failure of the insights call.
C28_WitnessInsightsFailed ==
    /\ ppc = "returned"
    /\ failure.stage = "insights"

\* C30: the 'sentiment' field of the record a run stored is the
\* overall_sentiment analyze_sentiment computed in that run, whatever the
\* classifier answered.
C30_SentimentIsOverall ==
    RunStored => table[p_key]["sentiment"] = Label(overall_sentiment)

\* What the code keeps instead: 'sentiment' is NEUTRAL in every stored
\* record, the overall sentiment being one level further down, under
\* comprehend_analysis.
C30_SentimentIsAlwaysNeutral ==
    RunStored =>
        /\ table[p_key]["sentiment"] = Label("NEUTRAL")
        /\ table[p_key]["sentiment_analysis"].v["comprehend_analysis"].v["overall_sentiment"]
               = Label(overall_sentiment)

\* A stored run whose classifier answers gave another overall sentiment
\* than NEUTRAL.
C30_WitnessNotNeutral == RunStored /\ overall_sentiment # "NEUTRAL"

\* A line starts with the label of spk_0 or of spk_1.
HasSpeakerLabel(line) ==
    StartsWith(line, Spk0Text \o <<":">>) \/ StartsWith(line, Spk1Text \o <<":">>)

\* The lines of a text ("" has none).
TextLines(text) == IF text = << >> THEN << >> ELSE SplitOn(text, "\n", << >>)

\* The lines of the input, trimmed, the blank ones left out.
TrimmedInputLines ==
    LET ls == TextLines(v_text)
    IN  SelectSeq([i \in 1..Len(ls) |-> Strip(ls[i])], LAMBDA l : l # << >>)

\* The current speaker when the n-th trimmed line is handled: spk_0 at the
\* start, after a labelled line its label, after an unlabelled line the
\* other speaker.
RECURSIVE CurrentSpeakerAt(_)
CurrentSpeakerAt(n) ==
    IF n = 1 THEN Spk0Text
    ELSE LET before == TrimmedInputLines[n - 1]
         IN  IF HasSpeakerLabel(before) THEN SubSeq(before, 1, 5)
             ELSE IF CurrentSpeakerAt(n - 1) = Spk0Text THEN Spk1Text ELSE Spk0Text

\* C29: every line of what _validate_transcript returns is non-blank and
\* starts with 'spk_0:' or 'spk_1:'; the labelled lines of the input are
\* kept, trimmed, in order; an unlabelled line gets the current speaker's
\* label, after which the current speaker toggles; and validating the
\* result again returns it unchanged.
C29_ValidateLabelsAndIsIdempotent ==
    /\ vpc \in {"validated", "validated_again"} =>
          LET out == TextLines(v_result)
          IN  /\ Len(out) = Len(TrimmedInputLines)
              /\ \A n \in 1..Len(out) :
                    /\ Strip(out[n]) # << >>
                    /\ HasSpeakerLabel(out[n])
                    /\ out[n] = IF HasSpeakerLabel(TrimmedInputLines[n])
                                THEN TrimmedInputLines[n]
                                ELSE CurrentSpeakerAt(n) \o <<":", " ">> \o TrimmedInputLines[n]
    /\ vpc = "validated_again" => v_result = ValidateTranscript(v_text)

\* A text with a blank line, two unlabelled lines in a row and a labelled
\* line has been validated twice, the first time changing it.
C29_Witness ==
    /\ vpc = "validated_again"
    /\ v_result # v_text
    /\ LET ls == TextLines(v_text)
       IN  /\ \E i \in 1..Len(ls) : ls[i] # << >> /\ Strip(ls[i]) = << >>
           /\ \E i \in 1..Len(ls) : HasSpeakerLabel(Strip(ls[i]))
    /\ \E n \in 1..(Len(TrimmedInputLines) - 1) :
          /\ ~HasSpeakerLabel(TrimmedInputLines[n])
          /\ ~HasSpeakerLabel(TrimmedInputLines[n + 1])

----------------------------------------------------------------------------
(* process_audio_file: two overlapping runs for one key *)

\* What get_transcription_result can return to a run: the scenario call, or
\* a call with one word.
RaceResult(text, s0, s1) ==
    Dict([transcript_text |-> Str(text),
          duration |-> FloatNum(2),
          speakers |-> List(<<Label(SPK0)>>),
          speakers_text |-> Dict([spk_0 |-> Str(s0), spk_1 |-> Str(s1)]),
          sentiment_analysis |-> PipelineSentiment])
RaceResults ==
    {RaceResult(ScenarioTranscript, <<" ">> \o Hello, <<" ">> \o Hi),
     RaceResult(LabelText(SPK0) \o <<":", " ">> \o Hi \o <<"\n">>, <<" ">> \o Hi, << >>)}

\* What a step of the two runs leaves alone.
OnlyR == UNCHANGED <<tvars, svars, cvars, vvars, pvars>>

\* app.py:170-173 in run r: the record is looked up; a run that finds one
\* returns it.
RunChecks(r) ==
    /\ rpc[r] = "check"
    /\ LET existing_analysis ==
               IF r_key \in DOMAIN table THEN Dict(Fetched(table[r_key])) ELSE NoneValue
       IN  /\ last_get' = existing_analysis
           /\ IF ~Falsy(existing_analysis)
              THEN /\ r_returned' = [r_returned EXCEPT ![r] = existing_analysis]
                   /\ rpc' = [rpc EXCEPT ![r] = "returned"]
              ELSE /\ r_returned' = r_returned
                   /\ rpc' = [rpc EXCEPT ![r] = "work"]
    /\ get_key' = r_key
    /\ dpc' = "got"
    /\ UNCHANGED <<table, written, file_key, data_in, analysis_data, now>>
    /\ UNCHANGED <<r_key, r_data, r_item>>
    /\ OnlyR

\* app.py:178-243 in run r: the job, the wait loop, the result, the summary
\* and the insights, none of which reads or writes the table; the run has
\* its analysis_data, stamped with the time of line 231.
RunWorks(r) ==
    /\ rpc[r] = "work"
    /\ \E tr \in RaceResults, text \in {SummaryText, SummaryFailed} :
          r_data' = [r_data EXCEPT
                        ![r] = AssembledRecord(r_key, tr, Str(text), Str(InsightsText), now)]
    /\ now' = now + 1
    /\ rpc' = [rpc EXCEPT ![r] = "store"]
    /\ UNCHANGED <<dpc, table, written, file_key, get_key, data_in, analysis_data, last_get>>
    /\ UNCHANGED <<r_key, r_item, r_returned>>
    /\ OnlyR

\* app.py:170-243 and 250-252 in run r: the lookup or one of the calls up
\* to the insights raises, or the job has FAILED; None is returned.
RunFailsBeforeStore(r) ==
    /\ rpc[r] \in {"check", "work"}
    /\ r_returned' = [r_returned EXCEPT ![r] = NoneValue]
    /\ rpc' = [rpc EXCEPT ![r] = "returned"]
    /\ UNCHANGED <<dvars, r_key, r_data, r_item>>
    /\ OnlyR

\* app.py:245-248 with dynamodb.py:55-109 in run r: the record is stored
\* and returned.
RunStores(r) ==
    /\ rpc[r] = "store"
    /\ LET prepared == Prepared(r_data[r])
           item == ItemOf(r_key, now, Converted(prepared))
       IN  /\ data_in' = r_data[r]
           /\ analysis_data' = prepared
           /\ table' = PutItem(table, r_key, item)
           /\ written' = Append(written, [key |-> r_key, item |-> item])
           /\ r_item' = [r_item EXCEPT ![r] = item]
           /\ r_returned' = [r_returned EXCEPT ![r] = Dict(prepared)]
    /\ file_key' = r_key
    /\ now' = now + 1
    /\ dpc' = "stored"
    /\ get_key' = << >>
    /\ last_get' = NoneValue
    /\ rpc' = [rpc EXCEPT ![r] = "returned"]
    /\ UNCHANGED <<r_key, r_data>>
    /\ OnlyR

\* dynamodb.py:106 and 111-113 in run r: put_item raises.
RunStoreFails(r) ==
    /\ rpc[r] = "store"
    /\ data_in' = r_data[r]
    /\ analysis_data' = Prepared(r_data[r])
    /\ file_key' = r_key
    /\ now' = now + 1
    /\ dpc' = "store_failed"
    /\ get_key' = << >>
    /\ last_get' = NoneValue
    /\ r_returned' = [r_returned EXCEPT ![r] = NoneValue]
    /\ rpc' = [rpc EXCEPT ![r] = "returned"]
    /\ UNCHANGED <<table, written, r_key, r_data, r_item>>
    /\ OnlyR

\* Two sessions call process_audio_file with the same key.
RInit ==
    /\ rpc = [r \in Runs |-> "check"]
    /\ r_key \in FileKeys
    /\ r_data = [r \in Runs |-> << >>]
    /\ r_item = [r \in Runs |-> << >>]
    /\ r_returned = [r \in Runs |-> NoneValue]

RaceInit ==
    TInitIdle /\ SInitIdle /\ DInitPipeline /\ CInitIdle /\ PInitIdle /\ VInitIdle /\ RInit
RaceNext ==
    \E r \in Runs :
        \/ RunChecks(r)
        \/ RunWorks(r)
        \/ RunFailsBeforeStore(r)
        \/ RunStores(r)
        \/ RunStoreFails(r)
SpecRace == RaceInit /\ [][RaceNext]_vars

\* The runs that gave an item to put_item and were not refused.
Writers == {r \in Runs : r_item[r] # << >>}

\* C26: when both runs have returned, the record of the key is, field for
\* field, the item of the run whose write came last (never a mixture of the
\* two items), the other key's record is as it was, and without a write
\* the table is as it was. (That both runs pass the check and write, in
\* either order, is what the two witnesses reach.)
C26_LastWriterWinsWhole ==
    (\A r \in Runs : rpc[r] = "returned") =>
        IF Writers = {} THEN table = InitialTable
        ELSE /\ table[r_key] = written[Len(written)].item
             /\ \E r \in Writers : table[r_key] = r_item[r]
             /\ \A k \in DOMAIN InitialTable \ {r_key} :
                   k \in DOMAIN table /\ table[k] = InitialTable[k]
             /\ DOMAIN table = DOMAIN InitialTable \cup {r_key}

\* Both runs passed the check and stored; run 1 wrote first, run 2 last,
\* and their items differ in more than the timestamp.
C26_Witness ==
    /\ \A r \in Runs : rpc[r] = "returned"
    /\ Writers = Runs
    /\ Len(written) = 3
    /\ written[2].item = r_item[1]
    /\ written[3].item = r_item[2]
    /\ r_item[1]["summary"] # r_item[2]["summary"]
    /\ r_item[1]["transcript"] # r_item[2]["transcript"]
    /\ table[r_key] = r_item[2]

\* The same with run 2 writing first and run 1 last.
C26_WitnessOtherOrder ==
    /\ \A r \in Runs : rpc[r] = "returned"
    /\ Writers = Runs
    /\ Len(written) = 3
    /\ written[2].item = r_item[2]
    /\ written[3].item = r_item[1]
    /\ table[r_key] = r_item[1]

====
